---- MODULE Spec2Model ----
(***************************************************************************)
(* CineCanvas XML subtitle codec of Aegisub (subtitle_format_cinecanvas    *)
(* and dialog_export_cinecanvas): the writer WriteFile / WriteSubtitle,    *)
(* the reader ReadFile, and the colour, time, fade and styled-segment      *)
(* helpers they are built from.                                            *)
(*                                                                         *)
(* A std::string is a sequence of one-character strings; positions are     *)
(* 1-based here and 0-based in the C++ source, and npos is 0.              *)
(***************************************************************************)
EXTENDS Integers, Sequences, FiniteSets, TLC

VARIABLES src, copy, doc, disk, target, pc, arg, ret

vars == <<src, copy, doc, disk, target, pc, arg, ret>>

(***************************************************************************)
(* Bounds of the model.                                                    *)
(***************************************************************************)
\* longest text, counted in pieces of TextPieces, the segment parser is run on
MaxPieces == 3
\* most lines, joined by a line break, in the text of one event
MaxLines == 3
\* most events in a source document
MaxEvents == 3

(***************************************************************************)
(* std::string helpers.                                                    *)
(***************************************************************************)
BS == "\\"

RECURSIVE Flatten(_)
Flatten(ss) ==
    IF ss = <<>> THEN <<>> ELSE Head(ss) \o Flatten(Tail(ss))

\* does pat occur in s at position p
MatchAt(s, pat, p) ==
    /\ p >= 1
    /\ p + Len(pat) - 1 <= Len(s)
    /\ \A k \in 1..Len(pat) : s[p + k - 1] = pat[k]

\* std::string::find(pat, from): the first position >= from, 0 for npos
Find(s, pat, from) ==
    LET hits == {p \in from..Len(s) : MatchAt(s, pat, p)}
    IN  IF hits = {} THEN 0 ELSE CHOOSE p \in hits : \A q \in hits : p <= q

\* std::string::substr(from, count), 1-based from
Substr(s, from, count) ==
    IF from > Len(s) THEN <<>>
    ELSE SubSeq(s, from, IF from + count - 1 > Len(s) THEN Len(s) ELSE from + count - 1)

IsBlank(c) == c = " " \/ c = "\t"

\* find_first_not_of(" \t"), 0 for npos
FirstNotBlank(s) ==
    LET hits == {p \in 1..Len(s) : ~IsBlank(s[p])}
    IN  IF hits = {} THEN 0 ELSE CHOOSE p \in hits : \A q \in hits : p <= q

\* find_last_not_of(" \t"), 0 for npos
LastNotBlank(s) ==
    LET hits == {p \in 1..Len(s) : ~IsBlank(s[p])}
    IN  IF hits = {} THEN 0 ELSE CHOOSE p \in hits : \A q \in hits : p >= q

(***************************************************************************)
(* ParseStyledSegments: split a line into runs of constant bold / italic.  *)
(***************************************************************************)
\* the while loop over "\b" (or "\i") in one tag block: the last 0 / 1 wins
RECURSIVE ScanToggle(_, _, _, _)
ScanToggle(tagBlock, letter, from, current) ==
    LET p == Find(tagBlock, <<BS, letter>>, from)
    IN  IF p = 0 THEN current
        ELSE LET now == IF p + 1 < Len(tagBlock)
                        THEN IF tagBlock[p + 2] = "0" THEN FALSE
                             ELSE IF tagBlock[p + 2] = "1" THEN TRUE
                             ELSE current
                        ELSE current
             IN  ScanToggle(tagBlock, letter, p + 2, now)

\* segments.push_back when currentText is not empty
PushSegment(segments, currentText, bold, italic) ==
    IF currentText # <<>>
    THEN Append(segments, [text |-> currentText, bold |-> bold, italic |-> italic])
    ELSE segments

\* a slip: the character after the closing brace is swallowed with the block
SlipAfterTagBlock(tagEnd) == tagEnd + 2

\* the step after a tag block was parsed: i = tagEnd + 1
AfterTagBlock(tagEnd) == tagEnd + 1

RECURSIVE SegmentLoop(_, _, _, _, _, _)
SegmentLoop(text, i, segments, currentText, bold, italic) ==
    IF i > Len(text)
    THEN PushSegment(segments, currentText, bold, italic)
    ELSE IF text[i] = "{"
    THEN LET saved  == PushSegment(segments, currentText, bold, italic)
             tagEnd == Find(text, <<"}">>, i)
         IN  IF tagEnd = 0
             THEN SegmentLoop(text, i + 1, saved, <<>>, bold, italic)
             ELSE LET tagBlock == Substr(text, i + 1, tagEnd - i - 1)
                      b        == ScanToggle(tagBlock, "b", 1, bold)
                      it       == ScanToggle(tagBlock, "i", 1, italic)
                  IN  SegmentLoop(text, AfterTagBlock(tagEnd), saved, <<>>, b, it)
    ELSE SegmentLoop(text, i + 1, segments, Append(currentText, text[i]), bold, italic)

ParseStyledSegments(text, defaultBold, defaultItalic) ==
    SegmentLoop(text, 1, <<>>, <<>>, defaultBold, defaultItalic)

\* lineText += seg.text over the segments
SegmentsText(segments) ==
    Flatten([k \in 1..Len(segments) |-> segments[k].text])

(***************************************************************************)
(* Numbers in text: boost::format / wxString::Format on the way out,       *)
(* std::stoi, sscanf and wxString::ToLong on the way in.                   *)
(***************************************************************************)
HexDigits == <<"0", "1", "2", "3", "4", "5", "6", "7", "8", "9", "A", "B", "C", "D", "E", "F">>

LowerHexDigits == <<"0", "1", "2", "3", "4", "5", "6", "7", "8", "9", "a", "b", "c", "d", "e", "f">>

DecDigits == <<"0", "1", "2", "3", "4", "5", "6", "7", "8", "9">>

\* "%02X" of a value in 0..255
Hex2(n) == <<HexDigits[(n \div 16) + 1], HexDigits[(n % 16) + 1]>>

IsHexDigit(c) == \E k \in 1..16 : c = HexDigits[k] \/ c = LowerHexDigits[k]

HexValue(c) == (CHOOSE k \in 1..16 : c = HexDigits[k] \/ c = LowerHexDigits[k]) - 1

IsDecDigit(c) == \E k \in 1..10 : c = DecDigits[k]

DecValue(c) == (CHOOSE k \in 1..10 : c = DecDigits[k]) - 1

\* the digits of n >= 0, most significant first
RECURSIVE Digits(_)
Digits(n) ==
    IF n < 10 THEN <<DecDigits[n + 1]>> ELSE Append(Digits(n \div 10), DecDigits[(n % 10) + 1])

RECURSIVE ZeroPad(_, _)
ZeroPad(ds, width) ==
    IF Len(ds) >= width THEN ds ELSE ZeroPad(<<"0">> \o ds, width)

\* "%0<width>d" of n; width 1 is "%d"
FormatInt(n, width) ==
    IF n < 0 THEN <<"-">> \o ZeroPad(Digits(-n), width - 1) ELSE ZeroPad(Digits(n), width)

\* the value of the longest run of digits of s from position p, to base `base`
RECURSIVE DigitRun(_, _, _, _)
DigitRun(s, p, base, acc) ==
    IF p <= Len(s) /\ (IF base = 16 THEN IsHexDigit(s[p]) ELSE IsDecDigit(s[p]))
    THEN DigitRun(s, p + 1, base,
                  [val |-> acc.val * base + (IF base = 16 THEN HexValue(s[p]) ELSE DecValue(s[p])),
                   next |-> p + 1])
    ELSE acc

RECURSIVE SkipBlanks(_, _)
SkipBlanks(s, p) ==
    IF p <= Len(s) /\ IsBlank(s[p]) THEN SkipBlanks(s, p + 1) ELSE p

\* the digits of a number: none is a failure (std::stoi throws, sscanf stops)
ScanIntDigits(from, neg, p1, run) ==
    IF run.next = p1
    THEN [ok |-> FALSE, val |-> 0, next |-> from]
    ELSE [ok |-> TRUE, val |-> IF neg THEN -run.val ELSE run.val, next |-> run.next]

\* the optional sign at p0, then the digits
ScanIntSign(s, from, base, p0, neg, p1) ==
    ScanIntDigits(from, neg, p1, DigitRun(s, p1, base, [val |-> 0, next |-> p1]))

ScanIntAt(s, from, base, p0) ==
    ScanIntSign(s, from, base, p0, p0 <= Len(s) /\ s[p0] = "-",
                IF p0 <= Len(s) /\ (s[p0] = "-" \/ s[p0] = "+") THEN p0 + 1 ELSE p0)

\* strtol as std::stoi and sscanf("%d") use it: blanks, an optional sign, then
\* at least one digit; ok is FALSE when no digit is there
ScanInt(s, from, base) == ScanIntAt(s, from, base, SkipBlanks(s, from))

(***************************************************************************)
(* Colours: ConvertColorToRGBA and ParseCineCanvasColor.                   *)
(***************************************************************************)
White == [r |-> 255, g |-> 255, b |-> 255]

Black == [r |-> 0, g |-> 0, b |-> 0]

\* agi::Color(r, g, b): each component is stored in an unsigned char
Color(r, g, b) == [r |-> r % 256, g |-> g % 256, b |-> b % 256]

\* a slip: the ASS alpha is written as it is, not complemented
SlipCinemaAlpha(alpha) == alpha % 256

\* uint8_t cinema_alpha = 255 - alpha
CinemaAlpha(alpha) == (255 - alpha) % 256

ConvertColorToRGBA(color, alpha) ==
    Hex2(color.r) \o Hex2(color.g) \o Hex2(color.b) \o Hex2(CinemaAlpha(alpha))

\* *outAlpha = static_cast<uint8_t>(255 - cinema_alpha)
AssAlpha(cinema_alpha) == (255 - cinema_alpha) % 256

\* the four std::stoi results put together; a failed one is the catch branch
ParsedColor(colorStr, r, g, b, a) ==
    IF ~(r.ok /\ g.ok /\ b.ok) \/ (Len(colorStr) >= 8 /\ ~a.ok)
    THEN [color |-> White, alpha |-> 0]
    ELSE [color |-> Color(r.val, g.val, b.val),
          alpha |-> IF Len(colorStr) >= 8 THEN AssAlpha(a.val) ELSE 0]

ParseCineCanvasColor(colorStr) ==
    IF Len(colorStr) < 6
    THEN [color |-> White, alpha |-> 0]
    ELSE ParsedColor(colorStr,
                     ScanInt(Substr(colorStr, 1, 2), 1, 16),
                     ScanInt(Substr(colorStr, 3, 2), 1, 16),
                     ScanInt(Substr(colorStr, 5, 2), 1, 16),
                     ScanInt(Substr(colorStr, 7, 2), 1, 16))

(***************************************************************************)
(* The frame-rate oracle agi::vfr::Framerate.  A rate is num / den frames  *)
(* per second.  FrameAtTime and TimeAtFrame follow the arithmetic the      *)
(* specification gives for them (scenario 5: frame 25 for 1042 ms at 24    *)
(* fps, and 1041 ms for frame 25).                                         *)
(***************************************************************************)
Unloaded == [loaded |-> FALSE, num |-> 0, den |-> 1]

Framerate(num, den) == [loaded |-> TRUE, num |-> num, den |-> den]

FrameAtTime(fps, ms) == (ms * fps.num) \div (1000 * fps.den)

TimeAtFrame(fps, frame) == (frame * 1000 * fps.den) \div fps.num

(***************************************************************************)
(* Times: ConvertTimeToCineCanvas and ConvertTimeFromCineCanvas.           *)
(***************************************************************************)
\* the ms -> frame -> ms step, taken when fps.IsLoaded() && fps.FPS() > 0
Quantize(ms, fps) ==
    IF fps.loaded /\ fps.num > 0
    THEN TimeAtFrame(fps, FrameAtTime(fps, ms))
    ELSE ms

\* a slip: the hours field wraps at 100
SlipFormatTime(ms) ==
    LET hours        == (ms \div 3600000) % 100
        rest         == ms % 3600000
        minutes      == rest \div 60000
        rest2        == rest % 60000
        seconds      == rest2 \div 1000
        milliseconds == rest2 % 1000
    IN  FormatInt(hours, 2) \o <<":">> \o FormatInt(minutes, 2) \o <<":">>
        \o FormatInt(seconds, 2) \o <<":">> \o FormatInt(milliseconds, 3)

\* "%02d:%02d:%02d:%03d" of the components of ms
FormatTime(ms) ==
    LET hours        == ms \div 3600000
        rest         == ms % 3600000
        minutes      == rest \div 60000
        rest2        == rest % 60000
        seconds      == rest2 \div 1000
        milliseconds == rest2 % 1000
    IN  FormatInt(hours, 2) \o <<":">> \o FormatInt(minutes, 2) \o <<":">>
        \o FormatInt(seconds, 2) \o <<":">> \o FormatInt(milliseconds, 3)

ConvertTimeToCineCanvas(time, fps) == FormatTime(Quantize(time, fps))

\* sscanf(s, "%d:%d:%d<sep>%d"): the numbers assigned, in order; the scan
\* stops at the first number or separator that is not there
RECURSIVE ScanTimeNumber(_, _, _, _), ScanTimeSeparator(_, _, _, _)
ScanTimeNumber(s, sep, vals, r) ==
    IF r.ok THEN ScanTimeSeparator(s, sep, Append(vals, r.val), r.next) ELSE vals

ScanTimeSeparator(s, sep, vals, p) ==
    IF Len(vals) < 4 /\ p <= Len(s) /\ s[p] = (IF Len(vals) = 3 THEN sep ELSE ":")
    THEN ScanTimeNumber(s, sep, vals, ScanInt(s, p + 1, 10))
    ELSE vals

ScanTime(s, sep) == ScanTimeNumber(s, sep, <<>>, ScanInt(s, 1, 10))

\* int totalMs = hours * 3600000 + minutes * 60000 + seconds * 1000 + milliseconds
TotalMs(t) == t[1] * 3600000 + t[2] * 60000 + t[3] * 1000 + t[4]

\* a slip: only the colon format is tried
SlipScannedTime(colons, period) ==
    IF Len(colons) = 4 THEN TotalMs(colons) ELSE 0

\* the colon format first, the period format second, 0 when neither matches
ScannedTime(colons, period) ==
    IF Len(colons) = 4 THEN TotalMs(colons)
    ELSE IF Len(period) = 4 THEN TotalMs(period)
    ELSE 0

ConvertTimeFromCineCanvas(timeStr) ==
    ScannedTime(ScanTime(timeStr, ":"), ScanTime(timeStr, "."))

(***************************************************************************)
(* The ASS document: AssFile, AssStyle, AssDialogue.                       *)
(***************************************************************************)
Arial == <<"A", "r", "i", "a", "l">>

\* the fields of an AssStyle this codec reads or writes
AssStyle(name, font, fontsize, bold, italic, primary, outline, outline_w) ==
    [name |-> name, font |-> font, fontsize |-> fontsize, bold |-> bold,
     italic |-> italic, primary |-> primary, outline |-> outline,
     outline_w |-> outline_w, alignment |-> 2, Margin |-> <<10, 10, 10>>]

\* the fields of an AssDialogue this codec reads or writes
AssDialogue(Start, End, Text, Style, Comment) ==
    [Start |-> Start, End |-> End, Text |-> Text, Style |-> Style, Comment |-> Comment]

\* script info without an entry
NoInfo == [k \in {} |-> <<>>]

\* an AssFile with nothing in it
EmptyFile == [Events |-> <<>>, Styles |-> <<>>, Info |-> NoInfo]

\* AssFile::SetScriptInfo(key, value)
SetScriptInfo(file, key, value) ==
    [file EXCEPT !.Info = [k \in (DOMAIN file.Info) \cup {key} |->
                              IF k = key THEN value ELSE file.Info[k]]]

(***************************************************************************)
(* The XML tree: wxXmlNode and wxXmlDocument.  A node is an element with   *)
(* attributes (in the order they were added) and children, or a text node  *)
(* with content.                                                           *)
(***************************************************************************)
Element(name) == [type |-> "element", name |-> name, attrs |-> <<>>, children |-> <<>>, content |-> <<>>]

TextNode(content) == [type |-> "text", name |-> "", attrs |-> <<>>, children |-> <<>>, content |-> content]

AddAttribute(node, key, value) == [node EXCEPT !.attrs = Append(@, <<key, value>>)]

AddChild(node, child) == [node EXCEPT !.children = Append(@, child)]

IsElement(node, name) == node.type = "element" /\ node.name = name

\* the positions of the attributes of node called key
AttributeAt(node, key) == {i \in 1..Len(node.attrs) : node.attrs[i][1] = key}

\* wxXmlNode::GetAttribute(key, default)
GetAttribute(node, key, default) ==
    IF AttributeAt(node, key) = {} THEN default
    ELSE node.attrs[CHOOSE i \in AttributeAt(node, key) :
                        \A j \in AttributeAt(node, key) : i <= j][2]

\* the positions of the text children of node
TextChildAt(node) == {i \in 1..Len(node.children) : node.children[i].type = "text"}

\* wxXmlNode::GetNodeContent(): the content of the first text child, else empty
GetNodeContent(node) ==
    IF TextChildAt(node) = {} THEN <<>>
    ELSE node.children[CHOOSE i \in TextChildAt(node) :
                           \A j \in TextChildAt(node) : i <= j].content

\* the children of node that are elements called name, in document order
ChildrenNamed(node, name) == SelectSeq(node.children, LAMBDA c : IsElement(c, name))

IsWhiteOnly(content) ==
    \A k \in 1..Len(content) : content[k] \in {" ", "\t", "\n", "\r"}

\* wxXmlDocument::Save then ::Load of a node: the tree comes back with its
\* elements, attributes and text, except that a text node of white space
\* only (an empty one included) is not there after Load
KeptByLoad(children) ==
    SelectSeq(children, LAMBDA c : c.type # "text" \/ ~IsWhiteOnly(c.content))

RECURSIVE Reloaded(_), ReloadedChildren(_)
Reloaded(node) ==
    IF node.type = "text" THEN node
    ELSE [node EXCEPT !.children = ReloadedChildren(KeptByLoad(node.children))]

ReloadedChildren(kept) == [i \in 1..Len(kept) |-> Reloaded(kept[i])]

(***************************************************************************)
(* ConvertToCineCanvas: the normalisation the writer applies to its copy.  *)
(* Sort, StripComments, RecombineOverlaps and MergeIdentical follow what   *)
(* the specification says of them: sort by start (ties in the original     *)
(* order), drop comment events, recombine overlapping events keeping the   *)
(* union of their texts, merge consecutive spans of identical text.        *)
(***************************************************************************)
RECURSIVE InsertByStart(_, _)
InsertByStart(sorted, e) ==
    IF sorted = <<>> THEN <<e>>
    ELSE IF sorted[Len(sorted)].Start <= e.Start THEN Append(sorted, e)
    ELSE Append(InsertByStart(SubSeq(sorted, 1, Len(sorted) - 1), e), sorted[Len(sorted)])

RECURSIVE Sort(_)
Sort(events) ==
    IF events = <<>> THEN <<>>
    ELSE InsertByStart(Sort(SubSeq(events, 1, Len(events) - 1)), events[Len(events)])

StripComments(events) == SelectSeq(events, LAMBDA e : ~e.Comment)

\* an event that is on screen for some time
Shown(e) == e.Start < e.End

\* the times at which an event of events comes on or goes off
Boundaries(events) ==
    {events[i].Start : i \in {j \in 1..Len(events) : Shown(events[j])}}
    \cup {events[i].End : i \in {j \in 1..Len(events) : Shown(events[j])}}

\* the events that are on screen throughout [from, to)
Covering(events, from, to) ==
    SelectSeq(events, LAMBDA e : Shown(e) /\ e.Start <= from /\ to <= e.End)

\* the texts of events, one under the other
RECURSIVE JoinTexts(_)
JoinTexts(events) ==
    IF Len(events) = 1 THEN events[1].Text
    ELSE JoinTexts(SubSeq(events, 1, Len(events) - 1)) \o <<BS, "N">> \o events[Len(events)].Text

\* the one event for [from, to), when some event is on screen then
Span(covering, from, to) ==
    IF covering = <<>> THEN <<>>
    ELSE <<AssDialogue(from, to, JoinTexts(covering), covering[1].Style, FALSE)>>

\* the spans between consecutive boundaries from the boundary `from` on
RECURSIVE SpansFrom(_, _, _)
SpansFrom(events, bounds, from) ==
    IF {b \in bounds : b > from} = {} THEN <<>>
    ELSE Span(Covering(events, from, CHOOSE b \in bounds : b > from /\ \A c \in bounds : c > from => b <= c),
              from, CHOOSE b \in bounds : b > from /\ \A c \in bounds : c > from => b <= c)
         \o SpansFrom(events, bounds, CHOOSE b \in bounds : b > from /\ \A c \in bounds : c > from => b <= c)

\* an event that is on screen for no time is left as it is
RecombineOverlaps(events) ==
    IF Boundaries(events) = {} THEN events
    ELSE Sort(SpansFrom(events, Boundaries(events),
                        CHOOSE b \in Boundaries(events) : \A c \in Boundaries(events) : b <= c)
              \o SelectSeq(events, LAMBDA e : ~Shown(e)))

RECURSIVE MergeIdentical(_)
MergeIdentical(events) ==
    IF Len(events) < 2 THEN events
    ELSE IF events[1].Text = events[2].Text /\ events[1].End = events[2].Start
    THEN MergeIdentical(<<[events[1] EXCEPT !.End = events[2].End]>> \o SubSeq(events, 3, Len(events)))
    ELSE <<events[1]>> \o MergeIdentical(Tail(events))

\* file.Sort(); StripComments(file); RecombineOverlaps(file); MergeIdentical(file)
ConvertToCineCanvas(file) ==
    [file EXCEPT !.Events = MergeIdentical(RecombineOverlaps(StripComments(Sort(@))))]

(***************************************************************************)
(* CineCanvasExportSettings: the frame-rate choice and the header fields.  *)
(***************************************************************************)
\* std::abs(rate - milli / 1000) < 0.1 for rate = num / den, in whole numbers
Near(fps, milli) ==
    /\ fps.num * 1000 - milli * fps.den < 100 * fps.den
    /\ milli * fps.den - fps.num * 1000 < 100 * fps.den

FramerateToEnum(fps) ==
    IF ~fps.loaded THEN "FPS_24"
    ELSE IF Near(fps, 23976) THEN "FPS_23_976"
    ELSE IF Near(fps, 24000) THEN "FPS_24"
    ELSE IF Near(fps, 25000) THEN "FPS_25"
    ELSE IF Near(fps, 29970) THEN "FPS_29_97"
    ELSE IF Near(fps, 30000) THEN "FPS_30"
    ELSE IF Near(fps, 48000) THEN "FPS_48"
    ELSE IF Near(fps, 50000) THEN "FPS_50"
    ELSE IF Near(fps, 59940) THEN "FPS_59_94"
    ELSE IF Near(fps, 60000) THEN "FPS_60"
    ELSE "FPS_24"

GetFramerate(frame_rate) ==
    CASE frame_rate = "FPS_23_976" -> Framerate(24000, 1001)
      [] frame_rate = "FPS_24"     -> Framerate(24, 1)
      [] frame_rate = "FPS_25"     -> Framerate(25, 1)
      [] frame_rate = "FPS_29_97"  -> Framerate(30000, 1001)
      [] frame_rate = "FPS_30"     -> Framerate(30, 1)
      [] frame_rate = "FPS_48"     -> Framerate(48, 1)
      [] frame_rate = "FPS_50"     -> Framerate(50, 1)
      [] frame_rate = "FPS_59_94"  -> Framerate(60000, 1001)
      [] frame_rate = "FPS_60"     -> Framerate(60, 1)
      [] OTHER                     -> Framerate(24, 1)

\* the constructor from the output path and the video frame rate
CineCanvasExportSettings(filename, video_fps) ==
    [movie_title |-> filename.stem,
     frame_rate |-> FramerateToEnum(video_fps),
     reel_number |-> 1,
     language_code |-> <<"e", "n">>,
     include_font_reference |-> FALSE,
     font_uri |-> <<>>]

(***************************************************************************)
(* CineCanvasExportSettings::Validate: the warnings shown before export.   *)
(***************************************************************************)
\* if (subtitle_count > 500)
MaxSubtitlesPerReel == 500

\* if (max_line_length > 80)
LongLineLength == 80

\* the warnings in the order they are pushed; events are those that are not
\* comments, a flag is set when text.find(needle) != npos for one of its
\* needles in one of the events, and max_line_length is the greatest
\* text.length() among them
WarningsOf(settings, events, max_line_length) ==
    (IF Len(events) > MaxSubtitlesPerReel
     THEN <<"Warning: File contains " \o ToString(Len(events))
            \o " subtitles. DCP typically limits to ~500 per reel.">>
     ELSE <<>>)
    \o (IF (\E i \in 1..Len(events) : \E needle \in {<<BS, "t">>, <<BS, "m", "o", "v", "e">>} :
            Find(events[i].Text, needle, 1) # 0)
        THEN <<"Warning: Animations (\\t, \\move) will be lost in export.">>
        ELSE <<>>)
    \o (IF (\E i \in 1..Len(events) : \E needle \in {<<BS, "b", "l", "u", "r">>, <<BS, "b", "e">>,
                            <<BS, "f", "s", "c", "x">>, <<BS, "f", "s", "c", "y">>} :
            Find(events[i].Text, needle, 1) # 0)
        THEN <<"Warning: Complex effects (\\blur, \\be, scaling) will be lost in export.">>
        ELSE <<>>)
    \o (IF (\E i \in 1..Len(events) : \E needle \in {<<BS, "p">>} :
            Find(events[i].Text, needle, 1) # 0)
        THEN <<"Warning: Vector drawings (\\p) are not supported and will be lost.">>
        ELSE <<>>)
    \o (IF max_line_length > LongLineLength
        THEN <<"Warning: Some lines are very long. Cinema subtitles typically use 40-50 characters per line.">>
        ELSE <<>>)
    \o (IF settings.include_font_reference /\ settings.font_uri = <<>>
        THEN <<"Warning: Font reference enabled but no font file selected.">>
        ELSE <<>>)
    \o <<"Note: DCP uses XYZ color space. Color appearance may differ from ASS preview.">>

\* a join that ends every warning with a newline, the last one too
RECURSIVE SlipJoinWarnings(_)
SlipJoinWarnings(warnings) ==
    IF warnings = <<>> THEN ""
    ELSE warnings[1] \o "\n" \o SlipJoinWarnings(Tail(warnings))

\* the warnings with a newline between one and the next
RECURSIVE JoinWarnings(_)
JoinWarnings(warnings) ==
    IF Len(warnings) = 1 THEN warnings[1]
    ELSE warnings[1] \o "\n" \o JoinWarnings(Tail(warnings))

\* file is [found |-> FALSE] for a null pointer, else [found |-> TRUE, it |-> the file]
Validate(settings, file) ==
    IF ~file.found THEN ""
    ELSE JoinWarnings(WarningsOf(settings,
             SelectSeq(file.it.Events, LAMBDA line : ~line.Comment),
             IF SelectSeq(file.it.Events, LAMBDA line : ~line.Comment) = <<>> THEN 0
             ELSE CHOOSE m \in {Len(line.Text) :
                                   line \in {file.it.Events[i] : i \in {j \in 1..Len(file.it.Events) : ~file.it.Events[j].Comment}}} :
                      \A i \in 1..Len(file.it.Events) :
                          ~file.it.Events[i].Comment => Len(file.it.Events[i].Text) <= m))

(***************************************************************************)
(* CineCanvasConfig: the validators of the configuration values.           *)
(***************************************************************************)
\* std::tolower on one char
ToLower(c) ==
    LET upper == <<"A", "B", "C", "D", "E", "F", "G", "H", "I", "J", "K", "L", "M", "N", "O", "P", "Q", "R", "S", "T", "U", "V", "W", "X", "Y", "Z">>
        lower == <<"a", "b", "c", "d", "e", "f", "g", "h", "i", "j", "k", "l", "m", "n", "o", "p", "q", "r", "s", "t", "u", "v", "w", "x", "y", "z">>
    IN  IF \E k \in 1..26 : upper[k] = c THEN lower[CHOOSE k \in 1..26 : upper[k] = c] ELSE c

VALID_LANGUAGE_CODES ==
    {
      <<"e", "n">>, <<"f", "r">>, <<"d", "e">>, <<"e", "s">>, <<"i", "t">>, <<"p", "t">>,
      <<"r", "u">>, <<"j", "a">>, <<"z", "h">>, <<"k", "o">>, <<"a", "r">>, <<"h", "e">>,
      <<"h", "i">>, <<"n", "l">>, <<"p", "l">>, <<"s", "v">>, <<"d", "a">>, <<"n", "o">>,
      <<"f", "i">>, <<"c", "s">>, <<"e", "l">>, <<"t", "r">>, <<"t", "h">>, <<"v", "i">>,
      <<"i", "d">>, <<"m", "s">>, <<"t", "l">>, <<"u", "k">>, <<"r", "o">>, <<"h", "u">>,
      <<"e", "n", "g">>, <<"f", "r", "a">>, <<"d", "e", "u">>, <<"s", "p", "a">>, <<"i", "t", "a">>,
      <<"p", "o", "r">>, <<"r", "u", "s">>, <<"j", "p", "n">>, <<"z", "h", "o">>, <<"k", "o", "r">>,
      <<"a", "r", "a">>, <<"h", "e", "b">>, <<"h", "i", "n">>, <<"n", "l", "d">>, <<"p", "o", "l">>,
      <<"s", "w", "e">>, <<"d", "a", "n">>, <<"n", "o", "r">>, <<"f", "i", "n">>, <<"c", "e", "s">>,
      <<"e", "l", "l">>, <<"t", "u", "r">>, <<"t", "h", "a">>, <<"v", "i", "e">>, <<"i", "n", "d">>,
      <<"m", "s", "a">>, <<"t", "g", "l">>, <<"u", "k", "r">>, <<"r", "o", "n">>, <<"h", "u", "n">>,
      <<"g", "e", "r">>, <<"f", "r", "e">>, <<"c", "h", "i">>, <<"c", "z", "e">>, <<"d", "u", "t">>,
      <<"g", "r", "e">>, <<"p", "e", "r">>, <<"r", "u", "m">>, <<"s", "l", "o">>, <<"w", "e", "l">> }

\* in the set, or of length 2 or 3 with std::isalpha true of every char
IsValidLanguageCode(code) ==
    \/ code \in VALID_LANGUAGE_CODES
    \/ /\ ~(Len(code) < 2 \/ Len(code) > 3)
       /\ \A k \in 1..Len(code) :
              code[k] \in {"A", "B", "C", "D", "E", "F", "G", "H", "I", "J", "K", "L", "M", "N", "O", "P", "Q", "R", "S", "T", "U", "V", "W", "X", "Y", "Z",
                           "a", "b", "c", "d", "e", "f", "g", "h", "i", "j", "k", "l", "m", "n", "o", "p", "q", "r", "s", "t", "u", "v", "w", "x", "y", "z"}

\* a validation that returns the code as it was given when its lowercase
\* form is valid
SlipValidateLanguageCode(code) ==
    IF IsValidLanguageCode([k \in 1..Len(code) |-> ToLower(code[k])]) THEN code
    ELSE <<"e", "n">>

ValidateLanguageCode(code) ==
    LET lowerCode == [k \in 1..Len(code) |-> ToLower(code[k])]
    IN  IF IsValidLanguageCode(lowerCode) THEN lowerCode ELSE <<"e", "n">>

SUPPORTED_FRAME_RATES == <<24, 25, 30>>

DEFAULT_FRAME_RATE == 24

\* a validation that also lets 48, 50 and 60 through
SlipValidateFrameRate(fps) ==
    IF fps \in {24, 25, 30, 48, 50, 60} THEN fps ELSE DEFAULT_FRAME_RATE

ValidateFrameRate(fps) ==
    IF \E k \in 1..Len(SUPPORTED_FRAME_RATES) : SUPPORTED_FRAME_RATES[k] = fps THEN fps
    ELSE DEFAULT_FRAME_RATE

(***************************************************************************)
(* GetFadeTime: the fade times of a line, read from its \fad or \fade tag. *)
(***************************************************************************)
\* sscanf(params, "%d,%d") after its first number a: both when a second number
\* follows the comma, else the single value for both
FadeOfNumbers(params, isFadeIn, a, comma) ==
    IF comma /\ ScanInt(params, a.next + 1, 10).ok
    THEN IF isFadeIn THEN a.val ELSE ScanInt(params, a.next + 1, 10).val
    ELSE a.val

FadeOfFirst(params, isFadeIn, a) ==
    IF ~a.ok THEN 0
    ELSE FadeOfNumbers(params, isFadeIn, a, a.next <= Len(params) /\ params[a.next] = ",")

FadeOfParams(params, isFadeIn) == FadeOfFirst(params, isFadeIn, ScanInt(params, 1, 10))

FadeBetween(text, isFadeIn, startParen, endParen) ==
    IF startParen # 0 /\ endParen # 0
    THEN FadeOfParams(Substr(text, startParen + 1, endParen - startParen - 1), isFadeIn)
    ELSE 0

FadeFromParen(text, isFadeIn, startParen) ==
    FadeBetween(text, isFadeIn, startParen,
                IF startParen = 0 THEN 0 ELSE Find(text, <<")">>, startParen))

FadeAt(text, isFadeIn, fadPos) ==
    IF fadPos # 0 THEN FadeFromParen(text, isFadeIn, Find(text, <<"(">>, fadPos)) ELSE 0

\* a slip: a line without a fade tag gets the configured default of 20 ms
SlipGetFadeTime(text, isFadeIn) ==
    IF Find(text, <<BS, "f", "a", "d">>, 1) = 0 THEN 20
    ELSE FadeAt(text, isFadeIn,
                IF Find(text, <<BS, "f", "a", "d", "(">>, 1) # 0
                THEN Find(text, <<BS, "f", "a", "d", "(">>, 1)
                ELSE Find(text, <<BS, "f", "a", "d", "e", "(">>, 1))

GetFadeTime(text, isFadeIn) ==
    FadeAt(text, isFadeIn,
           IF Find(text, <<BS, "f", "a", "d", "(">>, 1) # 0
           THEN Find(text, <<BS, "f", "a", "d", "(">>, 1)
           ELSE Find(text, <<BS, "f", "a", "d", "e", "(">>, 1))

(***************************************************************************)
(* GetEffectiveFontProps: the style of a line overlaid with the \fn, \fs,  *)
(* \1c, \3c and \1a tags of its text, the last of each kind winning.       *)
(***************************************************************************)
\* CineCanvasFontProps with its member initialisers
DefaultFontProps ==
    [fontName |-> Arial, fontSize |-> 42, bold |-> FALSE, italic |-> FALSE,
     primaryColor |-> White, outlineColor |-> Black, outlineWidth |-> 2,
     primaryAlpha |-> 0, outlineAlpha |-> 0]

\* the character classes of the regular expressions: \d, [0-9A-Fa-f], [^\\}]
InClass(c, class) ==
    CASE class = "digit" -> IsDecDigit(c)
      [] class = "hex"   -> IsHexDigit(c)
      [] OTHER           -> c # BS /\ c # "}"

\* the end of the run of characters of the class that starts at p
RECURSIVE RunEnd(_, _, _)
RunEnd(text, p, class) ==
    IF p <= Len(text) /\ InClass(text[p], class) THEN RunEnd(text, p + 1, class) ELSE p

\* the end of the captured group: a run of one or more (count 0), or exactly count
GroupEnd(text, from, class, count) ==
    IF count = 0 THEN RunEnd(text, from, class)
    ELSE IF RunEnd(text, from, class) >= from + count THEN from + count
    ELSE from

\* the match of prefix, group and (for a counted group) an optional & at p
MatchGroup(text, p, prefix, count, e) ==
    IF MatchAt(text, prefix, p) /\ e > p + Len(prefix)
    THEN [ok |-> TRUE, value |-> SubSeq(text, p + Len(prefix), e - 1),
          next |-> IF count # 0 /\ e <= Len(text) /\ text[e] = "&" THEN e + 1 ELSE e]
    ELSE [ok |-> FALSE, value |-> <<>>, next |-> p]

MatchTag(text, p, prefix, class, count) ==
    MatchGroup(text, p, prefix, count, GroupEnd(text, p + Len(prefix), class, count))

\* where, from `from` on, a tag with one of the prefixes matches
TagHits(text, from, prefixes, class, count) ==
    {h \in (from..Len(text)) \X (1..Len(prefixes)) :
        MatchTag(text, h[1], prefixes[h[2]], class, count).ok}

FirstHit(text, prefixes, class, count, hits) ==
    IF hits = {} THEN [ok |-> FALSE, value |-> <<>>, next |-> 0]
    ELSE MatchTag(text, (CHOOSE h \in hits : \A g \in hits : h[1] <= g[1])[1],
                  prefixes[(CHOOSE h \in hits : \A g \in hits : h[1] <= g[1])[2]],
                  class, count)

\* std::regex_search from `from`: the leftmost match
FirstTag(text, from, prefixes, class, count) ==
    FirstHit(text, prefixes, class, count, TagHits(text, from, prefixes, class, count))

\* the while loop over the matches: the captured group of the last one, or none
RECURSIVE LastTagFrom(_, _, _, _, _, _)
LastTagFrom(text, prefixes, class, count, current, m) ==
    IF ~m.ok THEN current
    ELSE LastTagFrom(text, prefixes, class, count, [found |-> TRUE, value |-> m.value],
                     FirstTag(text, m.next, prefixes, class, count))

LastTag(text, prefixes, class, count) ==
    LastTagFrom(text, prefixes, class, count, [found |-> FALSE, value |-> <<>>],
                FirstTag(text, 1, prefixes, class, count))

\* a slip: the digits of a colour tag are read in the order red, green, blue
SlipColorOfBGR(hex) ==
    Color(ScanInt(Substr(hex, 1, 2), 1, 16).val,
          ScanInt(Substr(hex, 3, 2), 1, 16).val,
          ScanInt(Substr(hex, 5, 2), 1, 16).val)

\* the BGR digits of a colour tag as a colour
ColorOfBGR(hex) ==
    Color(ScanInt(Substr(hex, 5, 2), 1, 16).val,
          ScanInt(Substr(hex, 3, 2), 1, 16).val,
          ScanInt(Substr(hex, 1, 2), 1, 16).val)

PropsOfStyle(style) ==
    IF style.found
    THEN [DefaultFontProps EXCEPT !.fontName = style.it.font,
                                  !.fontSize = style.it.fontsize,
                                  !.bold = style.it.bold,
                                  !.italic = style.it.italic,
                                  !.primaryColor = style.it.primary,
                                  !.outlineColor = style.it.outline,
                                  !.outlineWidth = style.it.outline_w]
    ELSE DefaultFontProps

OverlayTags(props, fn, fs, c1, c3, a1) ==
    [props EXCEPT !.fontName = IF fn.found THEN fn.value ELSE @,
                  !.fontSize = IF fs.found THEN ScanInt(fs.value, 1, 10).val ELSE @,
                  !.primaryColor = IF c1.found THEN ColorOfBGR(c1.value) ELSE @,
                  !.outlineColor = IF c3.found THEN ColorOfBGR(c3.value) ELSE @,
                  !.primaryAlpha = IF a1.found THEN ScanInt(a1.value, 1, 16).val ELSE @]

\* style is [found |-> FALSE] for a null pointer, else [found |-> TRUE, it |-> the style]
GetEffectiveFontProps(line, style) ==
    OverlayTags(PropsOfStyle(style),
                LastTag(line.Text, << <<BS, "f", "n">> >>, "name", 0),
                LastTag(line.Text, << <<BS, "f", "s">> >>, "digit", 0),
                LastTag(line.Text, << <<BS, "1", "c", "&", "H">>, <<BS, "c", "&", "H">> >>, "hex", 6),
                LastTag(line.Text, << <<BS, "3", "c", "&", "H">> >>, "hex", 6),
                LastTag(line.Text, << <<BS, "1", "a", "&", "H">>, <<BS, "a", "&", "H">> >>, "hex", 2))

(***************************************************************************)
(* WriteSubtitle: one Subtitle element for one event.                      *)
(***************************************************************************)
\* a null style pointer, and a pointer to a style
NoStyle == [found |-> FALSE, it |-> <<>>]

StyleAt(style) == [found |-> TRUE, it |-> style]

\* const double baseVPosition = 10.0 and lineSpacing = 6.5, in tenths
baseVPosition == 100

lineSpacing == 65

\* "%.1f" of a number of tenths
FormatTenths(tenths) ==
    Digits(tenths \div 10) \o <<".">> \o Digits(tenths % 10)

\* a slip: the lines are stacked from the first one up
SlipLineVPosition(nonEmptyLines, validLineIndex) ==
    baseVPosition + validLineIndex * lineSpacing

\* double vpos = baseVPosition + (nonEmptyLines - 1 - validLineIndex) * lineSpacing
LineVPosition(nonEmptyLines, validLineIndex) ==
    baseVPosition + (nonEmptyLines - 1 - validLineIndex) * lineSpacing

\* the while loop that cuts rawText at every sep from prev on
RECURSIVE SplitOn(_, _, _, _)
SplitOn(rawText, sep, prev, rawLines) ==
    IF Find(rawText, sep, prev) = 0
    THEN [rawLines |-> rawLines, prev |-> prev]
    ELSE SplitOn(rawText, sep, Find(rawText, sep, prev) + 2,
                 Append(rawLines, Substr(rawText, prev, Find(rawText, sep, prev) - prev)))

\* rawLines.push_back(rawText.substr(prev))
SplitEnd(rawText, cut) == Append(cut.rawLines, SubSeq(rawText, cut.prev, Len(rawText)))

\* the lower-case \n is tried when no \N was found
SplitAfterN(rawText, cut) ==
    IF cut.rawLines = <<>>
    THEN SplitEnd(rawText, SplitOn(rawText, <<BS, "n">>, 1, <<>>))
    ELSE SplitEnd(rawText, cut)

RawLines(rawText) == SplitAfterN(rawText, SplitOn(rawText, <<BS, "N">>, 1, <<>>))

\* the visible text of a raw line: the texts of its segments
LineText(rawLine, defaultBold, defaultItalic) ==
    SegmentsText(ParseStyledSegments(rawLine, defaultBold, defaultItalic))

\* the first pass: the lines with visible text other than blanks, 1 when none
CountNonEmpty(n) == IF n = 0 THEN 1 ELSE n

NonEmptyLines(rawLines, defaultBold, defaultItalic) ==
    CountNonEmpty(Cardinality({k \in 1..Len(rawLines) :
        FirstNotBlank(LineText(rawLines[k], defaultBold, defaultItalic)) # 0}))

\* the Effect and EffectColor of a per-line Font
WithEffect(node, fontProps) ==
    IF fontProps.outlineWidth > 0
    THEN AddAttribute(AddAttribute(node, "Effect", "border"),
                      "EffectColor", ConvertColorToRGBA(fontProps.outlineColor, 0))
    ELSE AddAttribute(node, "Effect", "none")

\* the per-line Font element, before its Text is added
LineFont(fontProps, bold, italic) ==
    WithEffect(
        AddAttribute(AddAttribute(AddAttribute(AddAttribute(AddAttribute(Element("Font"),
            "Script", fontProps.fontName),
            "Size", FormatInt(fontProps.fontSize, 1)),
            "Weight", IF bold THEN "bold" ELSE "normal"),
            "Italic", IF italic THEN "yes" ELSE "no"),
            "Color", ConvertColorToRGBA(fontProps.primaryColor, fontProps.primaryAlpha)),
        fontProps)

\* the Text element of a line, before its content is added
LineTextNode(vpos) ==
    AddAttribute(AddAttribute(AddAttribute(AddAttribute(AddAttribute(Element("Text"),
        "VAlign", "bottom"),
        "HAlign", "center"),
        "VPosition", FormatTenths(vpos)),
        "HPosition", <<"0", ".", "0">>),
        "Direction", "horizontal")

\* a slip: only the bold flags are compared
SlipAllSameStyle(segments) ==
    \A k \in 1..Len(segments) : segments[k].bold = segments[1].bold

AllSameStyle(segments) ==
    \A k \in 1..Len(segments) :
        segments[k].bold = segments[1].bold /\ segments[k].italic = segments[1].italic

\* the child of Text for one segment of a line of mixed styling
SegmentNode(seg) ==
    IF seg.bold \/ seg.italic
    THEN AddChild(
             IF seg.italic
             THEN AddAttribute(IF seg.bold THEN AddAttribute(Element("Font"), "Weight", "bold")
                               ELSE Element("Font"), "Italic", "yes")
             ELSE AddAttribute(Element("Font"), "Weight", "bold"),
             TextNode(seg.text))
    ELSE TextNode(seg.text)

RECURSIVE AddSegments(_, _)
AddSegments(textNode, segments) ==
    IF segments = <<>> THEN textNode
    ELSE IF Head(segments).text = <<>> THEN AddSegments(textNode, Tail(segments))
    ELSE AddSegments(AddChild(textNode, SegmentNode(Head(segments))), Tail(segments))

\* the Font of one line with visible text: uniform or mixed styling
LineNode(fontProps, segments, lineText, vpos) ==
    IF AllSameStyle(segments)
    THEN AddChild(LineFont(fontProps, segments[1].bold, segments[1].italic),
                  AddChild(LineTextNode(vpos),
                           TextNode(SubSeq(lineText, FirstNotBlank(lineText), LastNotBlank(lineText)))))
    ELSE AddChild(LineFont(fontProps, FALSE, FALSE), AddSegments(LineTextNode(vpos), segments))

\* the second pass over the raw lines; w holds the Subtitle built so far and
\* validLineIndex
RECURSIVE SecondPass(_, _, _), SecondPassLine(_, _, _, _, _)
SecondPass(ctx, lineIdx, w) ==
    IF lineIdx > Len(ctx.rawLines) THEN w
    ELSE SecondPassLine(ctx, lineIdx, w,
                        ParseStyledSegments(ctx.rawLines[lineIdx], ctx.defaultBold, ctx.defaultItalic),
                        LineText(ctx.rawLines[lineIdx], ctx.defaultBold, ctx.defaultItalic))

SecondPassLine(ctx, lineIdx, w, segments, lineText) ==
    IF FirstNotBlank(lineText) = 0
    THEN SecondPass(ctx, lineIdx + 1, w)
    ELSE SecondPass(ctx, lineIdx + 1,
             [subtitleNode |-> AddChild(w.subtitleNode,
                                   LineNode(ctx.fontProps, segments, lineText,
                                            LineVPosition(ctx.nonEmptyLines, w.validLineIndex))),
              validLineIndex |-> w.validLineIndex + 1])

\* a slip: a subtitle without a line gets no placeholder
SlipWithPlaceholder(ctx, w) == w.subtitleNode

\* the placeholder of a subtitle without a line
WithPlaceholder(ctx, w) ==
    IF w.validLineIndex = 0
    THEN AddChild(w.subtitleNode,
                  AddChild(LineFont(ctx.fontProps, FALSE, FALSE),
                           AddChild(LineTextNode(baseVPosition), TextNode(<<>>))))
    ELSE w.subtitleNode

\* the Subtitle element with its attributes, before its lines are added
SubtitleNode(line, spotNumber, fps) ==
    AddAttribute(AddAttribute(AddAttribute(AddAttribute(AddAttribute(Element("Subtitle"),
        "SpotNumber", FormatInt(spotNumber, 1)),
        "TimeIn", ConvertTimeToCineCanvas(line.Start, fps)),
        "TimeOut", ConvertTimeToCineCanvas(line.End, fps)),
        "FadeUpTime", FormatInt(GetFadeTime(line.Text, TRUE), 1)),
        "FadeDownTime", FormatInt(GetFadeTime(line.Text, FALSE), 1))

SubtitleLines(ctx, subtitleNode) ==
    WithPlaceholder(ctx, SecondPass(ctx, 1, [subtitleNode |-> subtitleNode, validLineIndex |-> 0]))

LineContext(fontProps, rawLines, defaultBold, defaultItalic) ==
    [fontProps |-> fontProps, rawLines |-> rawLines,
     defaultBold |-> defaultBold, defaultItalic |-> defaultItalic,
     nonEmptyLines |-> NonEmptyLines(rawLines, defaultBold, defaultItalic)]

\* fontNode with the Subtitle of line added
WriteSubtitle(fontNode, line, style, spotNumber, fps, settings) ==
    AddChild(fontNode,
             SubtitleLines(LineContext(GetEffectiveFontProps(line, style), RawLines(line.Text),
                                       style.found /\ style.it.bold,
                                       style.found /\ style.it.italic),
                           SubtitleNode(line, spotNumber, fps)))

(***************************************************************************)
(* WriteFile: the header, the container Font and one Subtitle per event    *)
(* of the normalised copy.                                                 *)
(***************************************************************************)
RECURSIVE Zeros(_)
Zeros(n) == IF n = 0 THEN <<>> ELSE <<"0">> \o Zeros(n - 1)

\* "urn:uuid:00000000-0000-0000-0000-000000000000"
GenerateUUID ==
    <<"u", "r", "n", ":", "u", "u", "i", "d", ":">> \o Zeros(8) \o <<"-">> \o Zeros(4)
    \o <<"-">> \o Zeros(4) \o <<"-">> \o Zeros(4) \o <<"-">> \o Zeros(12)

\* an element whose only child is a text node
TextElement(name, content) == AddChild(Element(name), TextNode(content))

\* agi::fs::path::filename(): what follows the last slash
RECURSIVE PathFilename(_)
PathFilename(path) ==
    IF Find(path, <<"/">>, 1) = 0 THEN path
    ELSE PathFilename(SubSeq(path, Find(path, <<"/">>, 1) + 1, Len(path)))

WriteHeader(root, settings) ==
    AddChild(AddChild(AddChild(AddChild(AddChild(root,
        TextElement("SubtitleID", GenerateUUID)),
        TextElement("MovieTitle", settings.movie_title)),
        TextElement("ReelNumber", FormatInt(settings.reel_number, 1))),
        TextElement("Language", settings.language_code)),
        AddAttribute(AddAttribute(Element("LoadFont"), "Id", "Font1"),
                     "URI", IF settings.include_font_reference /\ settings.font_uri # <<>>
                            THEN PathFilename(settings.font_uri)
                            ELSE <<>>))

\* styleMap.find(name): the last style of that name, as styleMap[name] = &style
\* is run for each style in turn
StyleMapFind(styles, name) ==
    IF {k \in 1..Len(styles) : styles[k].name = name} = {} THEN NoStyle
    ELSE StyleAt(styles[CHOOSE k \in 1..Len(styles) :
                            /\ styles[k].name = name
                            /\ \A j \in 1..Len(styles) : styles[j].name = name => j <= k])

\* the style called Default, else the first style, else none
DefaultStyleOf(styles) ==
    IF StyleMapFind(styles, "Default").found THEN StyleMapFind(styles, "Default")
    ELSE IF styles # <<>> THEN StyleAt(styles[1])
    ELSE NoStyle

\* the container Font with the properties of the default style
ContainerFont(defaultStyle) ==
    IF defaultStyle.found
    THEN AddAttribute(AddAttribute(AddAttribute(AddAttribute(AddAttribute(AddAttribute(AddAttribute(
             AddAttribute(Element("Font"), "Id", "Font1"),
             "Script", defaultStyle.it.font),
             "Size", FormatInt(defaultStyle.it.fontsize, 1)),
             "Weight", IF defaultStyle.it.bold THEN "bold" ELSE "normal"),
             "Italic", IF defaultStyle.it.italic THEN "yes" ELSE "no"),
             "Color", ConvertColorToRGBA(defaultStyle.it.primary, 0)),
             "Effect", IF defaultStyle.it.outline_w > 0 THEN "border" ELSE "none"),
             "EffectColor", IF defaultStyle.it.outline_w > 0
                            THEN ConvertColorToRGBA(defaultStyle.it.outline, 0)
                            ELSE <<"F", "F", "0", "0", "0", "0", "0", "0">>)
    ELSE AddAttribute(AddAttribute(AddAttribute(AddAttribute(AddAttribute(AddAttribute(AddAttribute(
             AddAttribute(Element("Font"), "Id", "Font1"),
             "Script", Arial),
             "Size", <<"4", "2">>),
             "Weight", "normal"),
             "Italic", "no"),
             "Color", <<"F", "F", "F", "F", "F", "F", "F", "F">>),
             "Effect", "border"),
             "EffectColor", <<"F", "F", "0", "0", "0", "0", "0", "0">>)

\* int spotNumber = 1
FirstSpotNumber == 1

\* a slip: a number is left out after each subtitle
SlipNextSpotNumber(spotNumber) == spotNumber + 2

\* spotNumber++
NextSpotNumber(spotNumber) == spotNumber + 1

\* the style of a line: its own when the map has it, else the default one
LineStyle(styles, line, defaultStyle) ==
    IF StyleMapFind(styles, line.Style).found THEN StyleMapFind(styles, line.Style)
    ELSE defaultStyle

\* the loop over copy.Events: fontNode with a Subtitle for each event that is
\* not a comment
RECURSIVE WriteEvents(_, _, _, _, _)
WriteEvents(w, events, fontNode, spotNumber, k) ==
    IF k > Len(events) THEN fontNode
    ELSE IF events[k].Comment THEN WriteEvents(w, events, fontNode, spotNumber, k + 1)
    ELSE WriteEvents(w, events,
                     WriteSubtitle(fontNode, events[k],
                                   LineStyle(w.styles, events[k], w.defaultStyle),
                                   spotNumber, w.export_fps, w.settings),
                     NextSpotNumber(spotNumber), k + 1)

\* the DCSubtitle tree WriteFile builds
BuildDocument(w, events) ==
    AddChild(WriteHeader(AddAttribute(Element("DCSubtitle"), "Version", "1.0"), w.settings),
             WriteEvents(w, events, ContainerFont(w.defaultStyle), FirstSpotNumber, 1))

\* a slip: the source itself is normalised
SlipNormalizeInPlace(file) ==
    [src |-> ConvertToCineCanvas(file), copy |-> ConvertToCineCanvas(file)]

\* AssFile copy(*src); ConvertToCineCanvas(copy): src is behind a pointer to
\* const and is only read
NormalizeCopy(file) == [src |-> file, copy |-> ConvertToCineCanvas(file)]

\* a slip: the frame rate of the caller goes to the time conversion
SlipWriteFileWith(n, settings) ==
    [src |-> n.src, copy |-> n.copy,
     root |-> BuildDocument([settings |-> settings,
                             export_fps |-> arg.fps,
                             styles |-> n.src.Styles,
                             defaultStyle |-> DefaultStyleOf(n.src.Styles)],
                            n.copy.Events)]

WriteFileWith(n, settings) ==
    [src |-> n.src, copy |-> n.copy,
     root |-> BuildDocument([settings |-> settings,
                             export_fps |-> GetFramerate(settings.frame_rate),
                             styles |-> n.src.Styles,
                             defaultStyle |-> DefaultStyleOf(n.src.Styles)],
                            n.copy.Events)]

\* what a call of WriteFile leaves: the source, the copy and the tree to save
WriteFileEffect(file, filename, fps) ==
    WriteFileWith(NormalizeCopy(file), CineCanvasExportSettings(filename, fps))

\* no file at the output path
NoDocument == [exists |-> FALSE, root |-> Element("")]

\* the file wxXmlDocument::Save(filename) leaves at the output path
SavedDocument(root) == [exists |-> TRUE, root |-> root]

(***************************************************************************)
(* ReadFile: a DCSubtitle document read into the target AssFile.           *)
(***************************************************************************)
\* wxString::Lower() on the attribute values the reader compares
Lower(str) ==
    CASE str \in {"Bold", "BOLD"}     -> "bold"
      [] str \in {"Yes", "YES"}       -> "yes"
      [] str \in {"Border", "BORDER"} -> "border"
      [] str \in {"Shadow", "SHADOW"} -> "shadow"
      [] OTHER                        -> str

\* wxString::ToLong(&value): value keeps its initial number when no digit is read
ToLong(str, initial) ==
    IF ScanInt(str, 1, 10).ok THEN ScanInt(str, 1, 10).val ELSE initial

\* wxString::ToDouble(&value) in tenths, to the first digit after the point
TenthsOf(str, whole) ==
    IF /\ whole.next + 1 <= Len(str)
       /\ str[whole.next] = "."
       /\ IsDecDigit(str[whole.next + 1])
    THEN whole.val * 10 + DecValue(str[whole.next + 1])
    ELSE whole.val * 10

ToDouble(str, initial) ==
    IF ScanInt(str, 1, 10).ok THEN TenthsOf(str, ScanInt(str, 1, 10)) ELSE initial

\* the Effect of a Font node: a border brings width 2 and its colour
WithParsedEffect(props, fontNode, effectStr) ==
    IF Lower(effectStr) = "border"
    THEN [props EXCEPT
             !.outlineWidth = 2,
             !.outlineColor = ParseCineCanvasColor(
                 GetAttribute(fontNode, "EffectColor", <<"F", "F", "0", "0", "0", "0", "0", "0">>)).color,
             !.outlineAlpha = ParseCineCanvasColor(
                 GetAttribute(fontNode, "EffectColor", <<"F", "F", "0", "0", "0", "0", "0", "0">>)).alpha]
    ELSE [props EXCEPT !.outlineWidth = 0]

ParsedFont(fontNode, color) ==
    WithParsedEffect(
        [DefaultFontProps EXCEPT
            !.fontSize = ToLong(GetAttribute(fontNode, "Size", <<"4", "2">>), 42),
            !.bold = (Lower(GetAttribute(fontNode, "Weight", "normal")) = "bold"),
            !.italic = (Lower(GetAttribute(fontNode, "Italic", "no")) = "yes"),
            !.primaryColor = color.color,
            !.primaryAlpha = color.alpha],
        fontNode, GetAttribute(fontNode, "Effect", "none"))

\* fontNode is [found |-> FALSE] for a null pointer, else [found |-> TRUE, it |-> the node]
ParseFontNode(fontNode) ==
    IF ~fontNode.found THEN DefaultFontProps
    ELSE ParsedFont(fontNode.it,
                    ParseCineCanvasColor(GetAttribute(fontNode.it, "Color",
                        <<"F", "F", "F", "F", "F", "F", "F", "F">>)))

\* the style a default AssFile comes with
DefaultStyle == AssStyle("Default", Arial, 42, FALSE, FALSE, White, Black, 2)

\* AssFile::LoadDefault(false): no event, the style Default, no script info
LoadDefault == [Events |-> <<>>, Styles |-> <<DefaultStyle>>, Info |-> NoInfo]

\* new AssDialogue: the empty event
NewAssDialogue == AssDialogue(0, 5000, <<>>, "Default", FALSE)

\* the content of the last child of root called name, empty when there is none
HeaderText(root, name) ==
    IF ChildrenNamed(root, name) = <<>> THEN <<>>
    ELSE GetNodeContent(ChildrenNamed(root, name)[Len(ChildrenNamed(root, name))])

\* the first Font child of node, if any
FirstFont(node) ==
    IF ChildrenNamed(node, "Font") = <<>> THEN [found |-> FALSE]
    ELSE [found |-> TRUE, it |-> ChildrenNamed(node, "Font")[1]]

WithTitle(file, movieTitle) ==
    IF movieTitle # <<>> THEN SetScriptInfo(file, "Title", movieTitle) ELSE file

WithLanguage(file, language) ==
    IF language # <<>> THEN SetScriptInfo(file, "Language", language) ELSE file

\* the style CineCanvas made of the properties of the container Font
CineCanvasStyle(props) ==
    [name |-> "CineCanvas", font |-> props.fontName, fontsize |-> props.fontSize,
     bold |-> props.bold, italic |-> props.italic, primary |-> props.primaryColor,
     outline |-> props.outlineColor, outline_w |-> props.outlineWidth,
     alignment |-> 2, Margin |-> <<10, 10, 10>>]

\* a slip: the style Default of the default document is left in
SlipWithCineCanvasStyle(file, props) ==
    [file EXCEPT !.Styles = Append(@, CineCanvasStyle(props))]

\* the styles called Default are erased, the style CineCanvas is appended
WithCineCanvasStyle(file, props) ==
    [file EXCEPT !.Styles =
        Append(SelectSeq(@, LAMBDA st : st.name # "Default"), CineCanvasStyle(props))]

\* the Text children of container that have content, in document order
TextLinesOf(container) ==
    [k \in 1..Len(SelectSeq(ChildrenNamed(container, "Text"),
                             LAMBDA t : GetNodeContent(t) # <<>>)) |->
        [vpos |-> ToDouble(GetAttribute(
                     SelectSeq(ChildrenNamed(container, "Text"),
                               LAMBDA t : GetNodeContent(t) # <<>>)[k],
                     "VPosition", <<"1", "0", ".", "0">>), 100),
         text |-> GetNodeContent(
                     SelectSeq(ChildrenNamed(container, "Text"),
                               LAMBDA t : GetNodeContent(t) # <<>>)[k])]]

\* the lines of a Subtitle: those of its first Font child when it has one, and
\* those right under the Subtitle when that gives none
CollectedLines(subNode, inlineFontNode) ==
    IF inlineFontNode.found /\ TextLinesOf(inlineFontNode.it) # <<>>
    THEN TextLinesOf(inlineFontNode.it)
    ELSE TextLinesOf(subNode)

\* a slip: the lines are left in the order of the document
SlipSortedOrders(textLines) == {[i \in 1..Len(textLines) |-> i]}

\* the orders std::sort may leave the lines in: vpos descending, lines of
\* equal vpos either way round
SortedOrders(textLines) ==
    {p \in [1..Len(textLines) -> 1..Len(textLines)] :
        /\ \A i, j \in 1..Len(textLines) : i # j => p[i] # p[j]
        /\ \A i, j \in 1..Len(textLines) :
               i < j => textLines[p[i]].vpos >= textLines[p[j]].vpos}

\* the lines in the order p, joined by \N
RECURSIVE CombinedText(_, _, _)
CombinedText(textLines, p, n) ==
    IF n = 0 THEN <<>>
    ELSE IF n = 1 THEN textLines[p[1]].text
    ELSE CombinedText(textLines, p, n - 1) \o <<BS, "N">> \o textLines[p[n]].text

\* a slip: the fade tag is put in front only when both fade times are positive
SlipFinalText(combinedText, fadeUp, fadeDown) ==
    IF fadeUp > 0 /\ fadeDown > 0
    THEN <<"{", BS, "f", "a", "d", "(">> \o FormatInt(fadeUp, 1) \o <<",">>
         \o FormatInt(fadeDown, 1) \o <<")", "}">> \o combinedText
    ELSE combinedText

\* the text of the event: a fade tag in front when a fade time is positive
FinalText(combinedText, fadeUp, fadeDown) ==
    IF fadeUp > 0 \/ fadeDown > 0
    THEN <<"{", BS, "f", "a", "d", "(">> \o FormatInt(fadeUp, 1) \o <<",">>
         \o FormatInt(fadeDown, 1) \o <<")", "}">> \o combinedText
    ELSE combinedText

\* a slip: a Subtitle without text gives an event as well
SlipSubtitleEvent(subNode, combinedText) ==
    <<AssDialogue(
        ConvertTimeFromCineCanvas(GetAttribute(subNode, "TimeIn",
            <<"0", "0", ":", "0", "0", ":", "0", "0", ":", "0", "0", "0">>)),
        ConvertTimeFromCineCanvas(GetAttribute(subNode, "TimeOut",
            <<"0", "0", ":", "0", "0", ":", "0", "5", ":", "0", "0", "0">>)),
        FinalText(combinedText,
                  ToLong(GetAttribute(subNode, "FadeUpTime", <<"0">>), 0),
                  ToLong(GetAttribute(subNode, "FadeDownTime", <<"0">>), 0)),
        "CineCanvas", FALSE)>>

\* the events one Subtitle gives: none when it has no text, else one
SubtitleEvent(subNode, combinedText) ==
    IF combinedText = <<>> THEN <<>>
    ELSE <<AssDialogue(
             ConvertTimeFromCineCanvas(GetAttribute(subNode, "TimeIn",
                 <<"0", "0", ":", "0", "0", ":", "0", "0", ":", "0", "0", "0">>)),
             ConvertTimeFromCineCanvas(GetAttribute(subNode, "TimeOut",
                 <<"0", "0", ":", "0", "0", ":", "0", "5", ":", "0", "0", "0">>)),
             FinalText(combinedText,
                       ToLong(GetAttribute(subNode, "FadeUpTime", <<"0">>), 0),
                       ToLong(GetAttribute(subNode, "FadeDownTime", <<"0">>), 0)),
             "CineCanvas", FALSE)>>

SubtitleEventsOf(subNode, textLines) ==
    {SubtitleEvent(subNode, CombinedText(textLines, p, Len(textLines))) :
        p \in SortedOrders(textLines)}

\* the event lists the Subtitles subs may give, one after the other
RECURSIVE ReadSubtitles(_)
ReadSubtitles(subs) ==
    IF subs = <<>> THEN {<<>>}
    ELSE {first \o rest :
            first \in SubtitleEventsOf(Head(subs), CollectedLines(Head(subs), FirstFont(Head(subs)))),
            rest \in ReadSubtitles(Tail(subs))}

\* the event lists the top-level Font elements fonts may give
RECURSIVE ReadFonts(_)
ReadFonts(fonts) ==
    IF fonts = <<>> THEN {<<>>}
    ELSE {first \o rest :
            first \in ReadSubtitles(ChildrenNamed(Head(fonts), "Subtitle")),
            rest \in ReadFonts(Tail(fonts))}

\* a slip: the empty event is added whatever was read
SlipWithEvents(file, events) ==
    [file EXCEPT !.Events = Append(events, NewAssDialogue)]

\* the target with the events read, or the empty event when there is none
WithEvents(file, events) ==
    [file EXCEPT !.Events = IF events = <<>> THEN <<NewAssDialogue>> ELSE events]

\* the targets ReadFile may leave for a document with root DCSubtitle
ReadRoot(root) ==
    {[thrown |-> FALSE,
      target |-> WithEvents(
                     WithCineCanvasStyle(
                         WithLanguage(WithTitle(LoadDefault, HeaderText(root, "MovieTitle")),
                                      HeaderText(root, "Language")),
                         ParseFontNode(FirstFont(root))),
                     events)] :
        events \in ReadFonts(ChildrenNamed(root, "Font"))}

\* a slip: the target is reset only once the file has loaded with the right root
SlipReadFileResults(file) ==
    IF ~file.exists \/ ~IsElement(file.root, "DCSubtitle")
    THEN {[thrown |-> TRUE, target |-> target]}
    ELSE ReadRoot(Reloaded(file.root))

\* the outcomes of ReadFile on the file at the path: the target is reset before
\* the file is loaded and its root is checked
ReadFileResults(file) ==
    IF ~file.exists \/ ~IsElement(file.root, "DCSubtitle")
    THEN {[thrown |-> TRUE, target |-> LoadDefault]}
    ELSE ReadRoot(Reloaded(file.root))

Idle ==
    /\ src = EmptyFile
    /\ copy = EmptyFile
    /\ doc = NoDocument
    /\ disk = NoDocument
    /\ target = EmptyFile

(***************************************************************************)
(* The two operations of the codec as steps: WriteFile from the source to  *)
(* the file at the output path, ReadFile from that file to the target.     *)
(***************************************************************************)
\* doc.Save(filename) may fail; its result is not looked at, and WriteFile
\* returns in either case
WriteFile ==
    /\ pc = "init"
    /\ \E saved \in BOOLEAN, w \in {WriteFileEffect(src, arg.filename, arg.fps)} :
        /\ src' = w.src
        /\ copy' = w.copy
        /\ doc' = SavedDocument(w.root)
        /\ disk' = IF saved THEN SavedDocument(w.root) ELSE disk
    /\ pc' = "written"
    /\ ret' = "returned"
    /\ UNCHANGED <<target, arg>>

ReadFile ==
    /\ pc \in {"init", "written", "selected"}
    /\ \E r \in ReadFileResults(disk) :
        /\ target' = r.target
        /\ ret' = IF r.thrown THEN "CineCanvasParseError" ELSE "returned"
    /\ pc' = "read"
    /\ UNCHANGED <<src, copy, doc, disk, arg>>

\* a slip: the root element is sniffed whatever the extension of the file is
SlipCanReadFile ==
    /\ pc = "init"
    /\ ret' = IF disk.exists /\ IsElement(disk.root, "DCSubtitle") THEN "true" ELSE "false"
    /\ pc' = "selected"
    /\ UNCHANGED <<src, copy, doc, disk, target, arg>>

\* the reader is asked whether the file at the path is its own: the extension
\* first (agi::fs::HasExtension), then the root of the document loaded
CanReadFile ==
    /\ pc = "init"
    /\ ret' = IF arg.filename.ext # "xml" THEN "false"
              ELSE IF ~disk.exists THEN "false"
              ELSE IF IsElement(disk.root, "DCSubtitle") THEN "true" ELSE "false"
    /\ pc' = "selected"
    /\ UNCHANGED <<src, copy, doc, disk, target, arg>>

Next == WriteFile \/ ReadFile

\* the sequences of at most n elements of S
SeqsUpTo(S, n) == UNION {[1..k -> S] : k \in 0..n}

Filename == [stem |-> <<"m">>, ext |-> "xml"]

(***************************************************************************)
(* Spec: documents of at most MaxEvents events with plain texts; events    *)
(* overlap, touch, repeat, are comments, or end before they start.         *)
(***************************************************************************)
\* a comment, two events that touch, one with the text of the first that
\* touches it, one that overlaps the first, and one that ends before it starts
EventPool ==
    { AssDialogue(0, 1042, <<"c">>, "Default", TRUE),
      AssDialogue(0, 1042, <<"a">>, "Default", FALSE),
      AssDialogue(1042, 3000, <<"b">>, "Default", FALSE),
      AssDialogue(1042, 3000, <<"a">>, "Default", FALSE),
      AssDialogue(1000, 3000, <<"b">>, "Default", FALSE),
      AssDialogue(3000, 1000, <<"b">>, "Default", FALSE) }

Init ==
    /\ src \in [Events : SeqsUpTo(EventPool, MaxEvents),
                 Styles : {<<>>, <<DefaultStyle>>},
                 Info : {NoInfo}]
    /\ copy = EmptyFile
    /\ doc = NoDocument
    /\ disk = NoDocument
    /\ target = EmptyFile
    /\ pc = "init"
    /\ arg \in [filename : {Filename}, fps : {Unloaded, Framerate(25, 1)}]
    /\ ret = <<>>

Spec == Init /\ [][Next]_vars

(***************************************************************************)
(* SpecLine: one event whose text is made of at most MaxLines lines, with  *)
(* fade tags, bold runs and blank lines among them.                        *)
(***************************************************************************)
Top == <<"T", "o", "p">>

Bottom == <<"B", "o", "t", "t", "o", "m">>

FadPair == <<"{", BS, "f", "a", "d", "(", "1", "0", "0", ",", "2", "5", "0", ")", "}">>

FadSingle == <<"{", BS, "f", "a", "d", "(", "5", "0", ")", "}">>

FadePair == <<"{", BS, "f", "a", "d", "e", "(", "1", "0", ",", "2", "0", ")", "}">>

LineSamples ==
    { Top, Bottom, <<" ">>,
      FadPair \o <<"H", "i">>, FadSingle \o <<"H", "i">>, FadePair \o <<"H", "i">>,
      <<"a", " ", "{", BS, "b", "1", "}", "b", "{", BS, "b", "0", "}", " ", "c">> }

\* lines with sep between them
RECURSIVE JoinLines(_, _)
JoinLines(lines, sep) ==
    IF Len(lines) = 1 THEN lines[1]
    ELSE JoinLines(SubSeq(lines, 1, Len(lines) - 1), sep) \o sep \o lines[Len(lines)]

InitLine ==
    /\ arg \in [filename : {Filename}, fps : {Unloaded},
                 lines : SeqsUpTo(LineSamples, MaxLines) \ {<<>>},
                 sep : {<<BS, "N">>, <<BS, "n">>}]
    /\ src = [Events |-> <<AssDialogue(1000, 3000, JoinLines(arg.lines, arg.sep), "Default", FALSE)>>,
              Styles |-> <<DefaultStyle>>,
              Info |-> NoInfo]
    /\ copy = EmptyFile
    /\ doc = NoDocument
    /\ disk = NoDocument
    /\ target = EmptyFile
    /\ pc = "init"
    /\ ret = <<>>

SpecLine == InitLine /\ [][Next]_vars

(***************************************************************************)
(* SpecSeg: ParseStyledSegments called on every text of at most MaxPieces  *)
(* pieces, with every default (bold, italic).                              *)
(***************************************************************************)
TextPieces ==
    { <<"a">>, <<" ">>, <<"{">>, <<"}">>,
      <<"{", BS, "b", "1", "}">>, <<"{", BS, "b", "0", "}">>,
      <<"{", BS, "i", "1", "}">>,
      <<"{", BS, "i", "0", BS, "b", "1", "}">> }

TextsOf(pieces, n) ==
    UNION { { Flatten(f) : f \in [1..k -> pieces] } : k \in 0..n }

InitSeg ==
    /\ Idle
    /\ pc = "call"
    /\ arg \in [text : TextsOf(TextPieces, MaxPieces), bold : BOOLEAN, italic : BOOLEAN]
    /\ ret = <<>>

CallParseStyledSegments ==
    /\ pc = "call"
    /\ ret' = ParseStyledSegments(arg.text, arg.bold, arg.italic)
    /\ pc' = "return"
    /\ UNCHANGED <<src, copy, doc, disk, target, arg>>

NextSeg == CallParseStyledSegments

SpecSeg == InitSeg /\ [][NextSeg]_vars

\* the number of c in the first n characters of s
RECURSIVE CountIn(_, _, _)
CountIn(s, c, n) ==
    IF n = 0 THEN 0 ELSE CountIn(s, c, n - 1) + (IF s[n] = c THEN 1 ELSE 0)

\* open tag blocks after the first n characters
BraceDepth(s, n) == CountIn(s, "{", n) - CountIn(s, "}", n)

\* every { is closed by a } before the next {, and no } stands alone
Balanced(s) ==
    /\ \A n \in 0..Len(s) : BraceDepth(s, n) \in {0, 1}
    /\ BraceDepth(s, Len(s)) = 0

\* s with every {...} block removed
WithoutBlocks(s) ==
    Flatten([n \in 1..Len(s) |->
        IF BraceDepth(s, n - 1) = 0 /\ s[n] # "{" THEN <<s[n]>> ELSE <<>>])

\* C3: for a text with balanced {...} blocks and any default (bold, italic), the
\* texts of the segments ParseStyledSegments returns, concatenated in order, are
\* the text with every {...} block removed (nothing outside a block is dropped or
\* altered), no segment is empty, and there is a segment when visible text is left.
C3_SegmentsCoverVisibleText ==
    (pc = "return" /\ Balanced(arg.text)) =>
        /\ SegmentsText(ret) = WithoutBlocks(arg.text)
        /\ \A k \in 1..Len(ret) : ret[k].text # <<>>
        /\ (WithoutBlocks(arg.text) # <<>> => Len(ret) >= 1)

\* a balanced text with a tag block between two visible runs, one holding a blank
C3_Witness ==
    /\ pc = "return"
    /\ Balanced(arg.text)
    /\ Len(ret) = 2
    /\ ret[1].bold # ret[2].bold
    /\ \E k \in 1..Len(ret[1].text) : ret[1].text[k] = " "

(***************************************************************************)
(* SpecColor: a colour written by ConvertColorToRGBA and parsed back by    *)
(* ParseCineCanvasColor.                                                   *)
(***************************************************************************)
ByteSamples == {0, 1, 9, 10, 15, 16, 127, 128, 254, 255}

InitColor ==
    /\ Idle
    /\ pc = "call"
    /\ arg \in [r : ByteSamples, g : ByteSamples, b : ByteSamples, alpha : ByteSamples]
    /\ ret = <<>>

CallColorRoundTrip ==
    /\ pc = "call"
    /\ LET str == ConvertColorToRGBA([r |-> arg.r, g |-> arg.g, b |-> arg.b], arg.alpha)
       IN  ret' = [str |-> str, parsed |-> ParseCineCanvasColor(str)]
    /\ pc' = "return"
    /\ UNCHANGED <<src, copy, doc, disk, target, arg>>

NextColor == CallColorRoundTrip

SpecColor == InitColor /\ [][NextColor]_vars

\* the value of the two upper-case hex digits of s at positions p, p + 1
UpperHexPair(s, p) ==
    LET hi == CHOOSE k \in 1..16 : s[p] = HexDigits[k]
        lo == CHOOSE k \in 1..16 : s[p + 1] = HexDigits[k]
    IN  (hi - 1) * 16 + (lo - 1)

\* C4: ConvertColorToRGBA((r,g,b), a) is the 8 upper-case hex digits RRGGBBAA with
\* AA = 255 - a, and ParseCineCanvasColor of it gives back (r,g,b) and ASS alpha a.
C4_ColorRoundTrip ==
    pc = "return" =>
        /\ Len(ret.str) = 8
        /\ \A p \in 1..8 : \E k \in 1..16 : ret.str[p] = HexDigits[k]
        /\ UpperHexPair(ret.str, 1) = arg.r
        /\ UpperHexPair(ret.str, 3) = arg.g
        /\ UpperHexPair(ret.str, 5) = arg.b
        /\ UpperHexPair(ret.str, 7) = 255 - arg.alpha
        /\ ret.parsed.color = [r |-> arg.r, g |-> arg.g, b |-> arg.b]
        /\ ret.parsed.alpha = arg.alpha

\* a half-transparent colour with letters among its digits went round
C4_Witness ==
    /\ pc = "return"
    /\ arg.alpha = 127
    /\ arg.r = 255
    /\ arg.b = 10
    /\ ret.parsed.alpha = 127

(***************************************************************************)
(* SpecTime: a time written by ConvertTimeToCineCanvas and parsed back by  *)
(* ConvertTimeFromCineCanvas, under an unloaded and under loaded oracles.  *)
(***************************************************************************)
\* times of up to 500 hours, 100 hours and more among them
TimeSamples ==
    { h * 3600000 + m * 60000 + s * 1000 + f :
        h \in {0, 1, 99, 100, 500}, m \in {0, 1, 59}, s \in {0, 1, 59},
        f \in {0, 41, 42, 999} }

FpsSamples == {Unloaded, Framerate(24, 1), Framerate(25, 1), Framerate(24000, 1001)}

InitTime ==
    /\ Idle
    /\ pc = "call"
    /\ arg \in [t : TimeSamples, fps : FpsSamples]
    \* a loaded oracle is asked about the first minute only
    /\ arg.fps.loaded => arg.t < 61000
    /\ ret = <<>>

CallTimeRoundTrip ==
    /\ pc = "call"
    /\ LET str == ConvertTimeToCineCanvas(arg.t, arg.fps)
       IN  ret' = [str |-> str, back |-> ConvertTimeFromCineCanvas(str)]
    /\ pc' = "return"
    /\ UNCHANGED <<src, copy, doc, disk, target, arg>>

NextTime == CallTimeRoundTrip

SpecTime == InitTime /\ [][NextTime]_vars

\* C5: with an unloaded oracle, ConvertTimeFromCineCanvas(ConvertTimeToCineCanvas(t))
\* is t for every t >= 0, times of 100 hours and more included.
C5_TimeRoundTripUnloaded ==
    (pc = "return" /\ ~arg.fps.loaded) => ret.back = arg.t

\* a time past 100 hours, written with three hour digits, went round
C5_Witness ==
    /\ pc = "return"
    /\ ~arg.fps.loaded
    /\ arg.t >= 100 * 3600000
    /\ Len(ret.str) = 13
    /\ ret.back = arg.t

(***************************************************************************)
(* What WriteFile wrote, looked at from outside.                           *)
(***************************************************************************)
\* the Subtitle elements of the container Font of the document written
WrittenSubtitles == ChildrenNamed(ChildrenNamed(doc.root, "Font")[1], "Subtitle")

\* the Text elements of a Subtitle, in document order
TextsUnder(sub) ==
    Flatten([i \in 1..Len(ChildrenNamed(sub, "Font")) |->
                ChildrenNamed(ChildrenNamed(sub, "Font")[i], "Text")])

\* the contents of the Text elements of a Subtitle, joined by \N
WrittenText(sub) ==
    IF TextsUnder(sub) = <<>> THEN <<>>
    ELSE JoinLines([i \in 1..Len(TextsUnder(sub)) |-> GetNodeContent(TextsUnder(sub)[i])],
                   <<BS, "N">>)

\* a text with the blanks at its ends cut off
Trimmed(v) ==
    IF FirstNotBlank(v) = 0 THEN <<>> ELSE SubSeq(v, FirstNotBlank(v), LastNotBlank(v))

\* the visible texts of lines, blanks at the ends cut off, blank lines left out
VisibleLines(lines) ==
    SelectSeq([i \in 1..Len(lines) |-> Trimmed(WithoutBlocks(lines[i]))],
              LAMBDA v : v # <<>>)

(***************************************************************************)
(* C1: write, then read.                                                   *)
(***************************************************************************)
\* the event read back is the event written, whose visible lines are given
RoundTripOf(visible) ==
    visible # <<>> =>
        /\ Len(target.Events) = 1
        /\ target.Events[1].Start = src.Events[1].Start
        /\ target.Events[1].End = src.Events[1].End
        /\ WithoutBlocks(target.Events[1].Text) = JoinLines(visible, <<BS, "N">>)

\* C1: an event written by WriteFile and read back by ReadFile comes back as one
\* event with the same start, the same end and the same visible text, its
\* non-empty lines joined by \N from the top down, a fade tag in front apart;
\* so Top\NBottom comes back as Top\NBottom.
C1_WriteReadRoundTrip ==
    (pc = "read" /\ disk.exists) => RoundTripOf(VisibleLines(arg.lines))

\* Top\NBottom was written in two Text elements and came back as Top
C1_TopBottomLost ==
    /\ pc = "read"
    /\ disk.exists
    /\ src.Events[1].Text = Top \o <<BS, "N">> \o Bottom
    /\ Len(TextsUnder(WrittenSubtitles[1])) = 2
    /\ Len(target.Events) = 1
    /\ target.Events[1].Text = Top

(***************************************************************************)
(* C2: the VPosition of each line.                                         *)
(***************************************************************************)
\* the VPosition values from the bottom line up
VPositionsFromBottom ==
    << <<"1", "0", ".", "0">>, <<"1", "6", ".", "5">>, <<"2", "3", ".", "0">>,
       <<"2", "9", ".", "5">>, <<"3", "6", ".", "0">> >>

\* k Text elements, the i-th at the (k - i + 1)-th value from the bottom
VPositionsOf(k, texts) ==
    k >= 1 =>
        /\ Len(texts) = k
        /\ \A i \in 1..k :
               GetAttribute(texts[i], "VPosition", <<>>) = VPositionsFromBottom[k - i + 1]

\* C2: for an event whose text has k >= 1 lines with visible text other than
\* blanks, WriteSubtitle writes k Text elements, and the i-th from the top has
\* VPosition 10.0 + (k - i) * 6.5: the bottom line is at 10.0 and the values
\* fall through the document.
C2_VPositions ==
    (pc # "init" /\ doc.exists) =>
        /\ Len(WrittenSubtitles) = 1
        /\ VPositionsOf(Len(VisibleLines(arg.lines)), TextsUnder(WrittenSubtitles[1]))

\* three lines were written at 23.0, 16.5 and 10.0, a blank line between the
\* first and the second left out
C2_Witness ==
    /\ pc = "written"
    /\ Len(arg.lines) = MaxLines
    /\ arg.lines[2] = <<" ">>
    /\ Len(VisibleLines(arg.lines)) = MaxLines - 1
    /\ Len(TextsUnder(WrittenSubtitles[1])) = MaxLines - 1
    /\ GetAttribute(TextsUnder(WrittenSubtitles[1])[MaxLines - 1], "VPosition", <<>>)
           = <<"1", "0", ".", "0">>
    /\ GetAttribute(TextsUnder(WrittenSubtitles[1])[MaxLines - 2], "VPosition", <<>>)
           = <<"1", "6", ".", "5">>

(***************************************************************************)
(* C7: the times of a Subtitle.                                            *)
(***************************************************************************)
IsDigits(s) == \A k \in 1..Len(s) : IsDecDigit(s[k])

RECURSIVE NumberOf(_)
NumberOf(digits) ==
    IF digits = <<>> THEN 0
    ELSE NumberOf(SubSeq(digits, 1, Len(digits) - 1)) * 10 + DecValue(digits[Len(digits)])

\* hours of two digits or more, then :MM:SS:mmm
WellFormedTime(s) ==
    /\ Len(s) >= 12
    /\ IsDigits(SubSeq(s, 1, Len(s) - 10))
    /\ s[Len(s) - 9] = ":"
    /\ IsDigits(SubSeq(s, Len(s) - 8, Len(s) - 7))
    /\ NumberOf(SubSeq(s, Len(s) - 8, Len(s) - 7)) <= 59
    /\ s[Len(s) - 6] = ":"
    /\ IsDigits(SubSeq(s, Len(s) - 5, Len(s) - 4))
    /\ NumberOf(SubSeq(s, Len(s) - 5, Len(s) - 4)) <= 59
    /\ s[Len(s) - 3] = ":"
    /\ IsDigits(SubSeq(s, Len(s) - 2, Len(s)))

\* the milliseconds a well-formed time stands for
ClockMs(s) ==
    NumberOf(SubSeq(s, 1, Len(s) - 10)) * 3600000
    + NumberOf(SubSeq(s, Len(s) - 8, Len(s) - 7)) * 60000
    + NumberOf(SubSeq(s, Len(s) - 5, Len(s) - 4)) * 1000
    + NumberOf(SubSeq(s, Len(s) - 2, Len(s)))

\* C7: every Subtitle the writer emits has well-formed TimeIn and TimeOut
\* (HH:MM:SS:mmm, two hour digits or more, minutes and seconds up to 59), and
\* its TimeIn is not later than its TimeOut.
C7_TimeInNotAfterTimeOut ==
    (pc # "init" /\ doc.exists) =>
        \A i \in 1..Len(WrittenSubtitles) :
            /\ WellFormedTime(GetAttribute(WrittenSubtitles[i], "TimeIn", <<>>))
            /\ WellFormedTime(GetAttribute(WrittenSubtitles[i], "TimeOut", <<>>))
            /\ ClockMs(GetAttribute(WrittenSubtitles[i], "TimeIn", <<>>))
                   <= ClockMs(GetAttribute(WrittenSubtitles[i], "TimeOut", <<>>))

\* the one event starts at 3000 ms and ends at 1000 ms, and its Subtitle has
\* TimeIn 00:00:03:000 and TimeOut 00:00:01:000
C7_TimeInAfterTimeOut ==
    /\ pc = "written"
    /\ Len(src.Events) = 1
    /\ src.Events[1].Start = 3000
    /\ src.Events[1].End = 1000
    /\ Len(WrittenSubtitles) = 1
    /\ GetAttribute(WrittenSubtitles[1], "TimeIn", <<>>)
           = <<"0", "0", ":", "0", "0", ":", "0", "3", ":", "0", "0", "0">>
    /\ GetAttribute(WrittenSubtitles[1], "TimeOut", <<>>)
           = <<"0", "0", ":", "0", "0", ":", "0", "1", ":", "0", "0", "0">>

(***************************************************************************)
(* C8: comments and spot numbers.                                          *)
(***************************************************************************)
\* C8: WriteFile writes one Subtitle for each event of the normalised list that
\* is not a comment and none for a comment, in the order of those events, and
\* the SpotNumber attributes are 1, 2, ..., n.
C8_SpotNumbers ==
    (pc # "init" /\ doc.exists) =>
        /\ Len(WrittenSubtitles) = Len(SelectSeq(copy.Events, LAMBDA e : ~e.Comment))
        /\ \A i \in 1..Len(WrittenSubtitles) :
               /\ GetAttribute(WrittenSubtitles[i], "SpotNumber", <<>>) = <<DecDigits[i + 1]>>
               /\ WrittenText(WrittenSubtitles[i])
                      = SelectSeq(copy.Events, LAMBDA e : ~e.Comment)[i].Text
        /\ (\A k \in 1..Len(src.Events) : src.Events[k].Comment) => WrittenSubtitles = <<>>

\* a comment c, then a and b: two Subtitles, 1 over a and 2 over b
C8_Witness ==
    /\ pc = "written"
    /\ Len(src.Events) = 3
    /\ src.Events[1].Comment
    /\ Len(WrittenSubtitles) = 2
    /\ GetAttribute(WrittenSubtitles[1], "SpotNumber", <<>>) = <<"1">>
    /\ WrittenText(WrittenSubtitles[1]) = <<"a">>
    /\ GetAttribute(WrittenSubtitles[2], "SpotNumber", <<>>) = <<"2">>
    /\ WrittenText(WrittenSubtitles[2]) = <<"b">>

(***************************************************************************)
(* C9: the source after WriteFile.                                         *)
(***************************************************************************)
\* C9: WriteFile leaves the events of the source (order, times, text, style
\* name, comment flag) and its styles as they were, whether the file was saved
\* or not: the normalisation works on a copy.
C9_SourceNotMutated ==
    [][pc' = "written" => (src'.Events = src.Events /\ src'.Styles = src.Styles)]_vars

\* the call is over without a file, the copy was sorted and lost a comment, and
\* the source still has its comment after a later event
C9_Witness ==
    /\ pc = "written"
    /\ ~disk.exists
    /\ Len(src.Events) = 3
    /\ src.Events[1].Start > src.Events[2].Start
    /\ src.Events[3].Comment
    /\ Len(copy.Events) = 2
    /\ copy.Events[1].Start <= copy.Events[2].Start

(***************************************************************************)
(* C10: the fade times of a Subtitle.                                      *)
(***************************************************************************)
StartsWith(line, tag) == Len(line) >= Len(tag) /\ SubSeq(line, 1, Len(tag)) = tag

\* the lines that carry a fade tag
FadeLines(lines) ==
    {i \in 1..Len(lines) :
        StartsWith(lines[i], FadPair) \/ StartsWith(lines[i], FadSingle)
        \/ StartsWith(lines[i], FadePair)}

\* the FadeUpTime and FadeDownTime a line with a fade tag asks for
FadeAsked(line) ==
    IF StartsWith(line, FadPair) THEN << <<"1", "0", "0">>, <<"2", "5", "0">> >>
    ELSE IF StartsWith(line, FadSingle) THEN << <<"5", "0">>, <<"5", "0">> >>
    ELSE << <<"1", "0">>, <<"2", "0">> >>

MaxSubtitles == 2

RECURSIVE WithAttributes(_, _)
WithAttributes(node, pairs) ==
    IF pairs = <<>> THEN node
    ELSE WithAttributes(AddAttribute(node, pairs[1][1], pairs[1][2]), Tail(pairs))

RECURSIVE WithChildren(_, _)
WithChildren(node, children) ==
    IF children = <<>> THEN node
    ELSE WithChildren(AddChild(node, Head(children)), Tail(children))

\* a Text element at vpos, with a text child when it has content
TextAt(vpos, content) ==
    WithChildren(AddAttribute(Element("Text"), "VPosition", vpos),
                 IF content = <<>> THEN <<>> ELSE <<TextNode(content)>>)

\* the attributes a top-level Font may carry, and the style they stand for
FontKinds ==
    { [attrs |-> <<>>,
       style |-> AssStyle("CineCanvas", Arial, 42, FALSE, FALSE, Color(255, 255, 255),
                          Color(0, 0, 0), 0)],
      [attrs |-> << <<"Size", <<"3", "6">> >>, <<"Weight", "bold">>, <<"Italic", "yes">>,
                    <<"Color", <<"F", "F", "0", "0", "0", "0", "8", "0">> >>,
                    <<"Effect", "none">> >>,
       style |-> AssStyle("CineCanvas", Arial, 36, TRUE, TRUE, Color(255, 0, 0),
                          Color(0, 0, 0), 0)],
      [attrs |-> << <<"Size", <<"4", "8">> >>, <<"Weight", "Bold">>, <<"Italic", "no">>,
                    <<"Color", <<"0", "0", "F", "F", "0", "0", "F", "F">> >>,
                    <<"Effect", "border">>,
                    <<"EffectColor", <<"0", "0", "0", "0", "F", "F", "F", "F">> >> >>,
       style |-> AssStyle("CineCanvas", Arial, 48, TRUE, FALSE, Color(0, 255, 0),
                          Color(0, 0, 255), 2)] }

\* the style of a document without a top-level Font
StyleWithoutFont ==
    AssStyle("CineCanvas", Arial, 42, FALSE, FALSE, Color(255, 255, 255), Color(0, 0, 0), 2)

\* Subtitle elements: a line in a Font, two lines in a Font, a faded line right
\* under the Subtitle, a Font whose Text has no content, and nothing at all
SubtitleSamples ==
    { WithChildren(
          WithAttributes(Element("Subtitle"),
              << <<"TimeIn", <<"0", "0", ":", "0", "0", ":", "0", "1", ":", "0", "0", "0">> >>,
                 <<"TimeOut", <<"0", "0", ":", "0", "0", ":", "0", "3", ":", "0", "0", "0">> >> >>),
          << WithChildren(Element("Font"), << TextAt(<<"1", "0", ".", "0">>, <<"H", "i">>) >>) >>),
      WithChildren(Element("Subtitle"),
          << WithChildren(Element("Font"),
                 << TextAt(<<"1", "6", ".", "5">>, Top), TextAt(<<"1", "0", ".", "0">>, Bottom) >>) >>),
      WithChildren(
          WithAttributes(Element("Subtitle"), << <<"FadeUpTime", <<"1", "0", "0">> >> >>),
          << TextAt(<<"1", "0", ".", "0">>, <<"L", "o">>) >>),
      WithChildren(Element("Subtitle"),
          << WithChildren(Element("Font"), << TextAt(<<"1", "0", ".", "0">>, <<>>) >>) >>),
      Element("Subtitle") }

\* the top-level Font elements
FontSamples ==
    { WithChildren(WithAttributes(Element("Font"), k.attrs), subs) :
        k \in FontKinds, subs \in SeqsUpTo(SubtitleSamples, MaxSubtitles) }

\* the header children: none, or MovieTitle and Language
HeaderSamples ==
    { <<>>,
      << TextElement("MovieTitle", <<"m">>), TextElement("Language", <<"e", "n">>) >> }

\* the Font children: none, one, or a second one after a first of another kind
FontLists ==
    {<<>>} \cup {<<f>> : f \in FontSamples}
    \cup { <<f, g>> : f \in {h \in FontSamples : h.children = <<>>},
                      g \in {h \in FontSamples : Len(h.children) = 1 /\ h.attrs # <<>>} }

DiskSamples ==
    {NoDocument, SavedDocument(Element("Other")),
     SavedDocument(WithChildren(Element("Other"), <<Element("Font")>>))}
    \cup { SavedDocument(WithChildren(WithChildren(Element("DCSubtitle"), header), fonts)) :
             header \in HeaderSamples, fonts \in FontLists }

InitRead ==
    /\ src = EmptyFile
    /\ copy = EmptyFile
    /\ doc = NoDocument
    /\ disk \in DiskSamples
    /\ target = EmptyFile
    /\ pc = "init"
    /\ arg \in [filename : [stem : {<<"m">>}, ext : {"xml", "txt"}], fps : {Unloaded}]
    /\ ret = <<>>

NextRead == CanReadFile \/ ReadFile

SpecRead == InitRead /\ [][NextRead]_vars

\* ReadFile came back without an error
ReadReturned == pc = "read" /\ ret = "returned"

\* the style the first top-level Font of the file stands for
StyleExpected ==
    IF ChildrenNamed(disk.root, "Font") = <<>> THEN StyleWithoutFont
    ELSE (CHOOSE k \in FontKinds : k.attrs = ChildrenNamed(disk.root, "Font")[1].attrs).style

(***************************************************************************)
(* C11: the styles of the target.                                          *)
(***************************************************************************)
\* C11: after ReadFile returns normally the styles of the target hold exactly
\* one style called CineCanvas, with alignment 2, margins 10/10/10 and the font
\* properties of the first top-level Font element (the defaults when there is
\* none), and no style called Default.
C11_OneCineCanvasStyle ==
    ReadReturned =>
        /\ Cardinality({k \in 1..Len(target.Styles) : target.Styles[k].name = "CineCanvas"}) = 1
        /\ \A k \in 1..Len(target.Styles) :
               /\ target.Styles[k].name # "Default"
               /\ target.Styles[k].name = "CineCanvas" =>
                      /\ target.Styles[k] = StyleExpected
                      /\ target.Styles[k].alignment = 2
                      /\ target.Styles[k].Margin = <<10, 10, 10>>

\* two top-level Font elements: the style is that of the first, bold italic 36
C11_Witness ==
    /\ ReadReturned
    /\ Len(ChildrenNamed(disk.root, "Font")) = 2
    /\ Len(target.Styles) = 1
    /\ target.Styles[1].name = "CineCanvas"
    /\ target.Styles[1].fontsize = 36
    /\ target.Styles[1].bold
    /\ target.Styles[1].italic
    /\ target.Styles[1].outline_w = 0

(***************************************************************************)
(* C12: the style names of the events.                                     *)
(***************************************************************************)
\* C12: after ReadFile returns normally every event of the target has a style
\* name that is the name of a style of the target, the empty event of a
\* document without subtitles included: no event refers to the style Default
\* that was removed.
C12_EventStylesPresent ==
    ReadReturned =>
        \A i \in 1..Len(target.Events) :
            \E k \in 1..Len(target.Styles) : target.Styles[k].name = target.Events[i].Style

\* a DCSubtitle document without a Subtitle: the target has the one empty
\* event, of style Default, and the one style CineCanvas
C12_EmptyEventRefersToDefault ==
    /\ ReadReturned
    /\ ChildrenNamed(disk.root, "Font") = <<>>
    /\ Len(target.Events) = 1
    /\ target.Events[1].Text = <<>>
    /\ target.Events[1].Style = "Default"
    /\ Len(target.Styles) = 1
    /\ target.Styles[1].name = "CineCanvas"

(***************************************************************************)
(* C13: the events of the target.                                          *)
(***************************************************************************)
\* the Subtitle elements of the file, through its top-level Font elements
DiskSubtitles ==
    Flatten([i \in 1..Len(ChildrenNamed(disk.root, "Font")) |->
                ChildrenNamed(ChildrenNamed(disk.root, "Font")[i], "Subtitle")])

\* a Text element with text in it
HasContent(text) == \E k \in 1..Len(text.children) : text.children[k].type = "text"

\* a Subtitle with a Text with text in it, right under it or under a Font of it
HasText(sub) ==
    \/ \E t \in 1..Len(ChildrenNamed(sub, "Text")) : HasContent(ChildrenNamed(sub, "Text")[t])
    \/ \E f \in 1..Len(ChildrenNamed(sub, "Font")) :
           \E t \in 1..Len(ChildrenNamed(ChildrenNamed(sub, "Font")[f], "Text")) :
               HasContent(ChildrenNamed(ChildrenNamed(sub, "Font")[f], "Text")[t])

\* n dialogue events came out of the file
EventsFor(n) ==
    IF n = 0
    THEN Len(target.Events) = 1 /\ target.Events[1].Text = <<>>
    ELSE Len(target.Events) = n /\ \A i \in 1..n : target.Events[i].Text # <<>>

\* C13: after ReadFile returns normally the event list of the target is not
\* empty: a document that yields no dialogue event (no Subtitle, or Subtitles
\* without text only) gives exactly one empty event, and a document that
\* yields events gives those and no other.
C13_EventsNeverEmpty ==
    ReadReturned =>
        /\ Len(target.Events) >= 1
        /\ EventsFor(Len(SelectSeq(DiskSubtitles, HasText)))

\* two Subtitle elements without text: the one empty event
C13_Witness ==
    /\ ReadReturned
    /\ Len(DiskSubtitles) = 2
    /\ SelectSeq(DiskSubtitles, HasText) = <<>>
    /\ Len(target.Events) = 1
    /\ target.Events[1].Text = <<>>

(***************************************************************************)
(* C14: reader selection and parse errors.                                 *)
(***************************************************************************)
\* the file at the path loads as XML with the root DCSubtitle
IsDCSubtitleFile == disk.exists /\ disk.root.type = "element" /\ disk.root.name = "DCSubtitle"

\* C14: CanReadFile returns true exactly when the extension of the file is xml
\* and the XML loads with the root element DCSubtitle, and returns false, with
\* no error, in every other case; ReadFile raises CineCanvasParseError when the
\* XML cannot be loaded or its root is not DCSubtitle, and then the target has
\* no style CineCanvas and no event.
C14_SelectionAndParseErrors ==
    /\ pc = "selected" =>
           ret = (IF arg.filename.ext = "xml" /\ IsDCSubtitleFile THEN "true" ELSE "false")
    /\ pc = "read" =>
           /\ ret = (IF IsDCSubtitleFile THEN "returned" ELSE "CineCanvasParseError")
           /\ ret = "CineCanvasParseError" =>
                  /\ target.Events = <<>>
                  /\ \A k \in 1..Len(target.Styles) : target.Styles[k].name # "CineCanvas"

\* a file that loads with another root and a Font in it was declined and,
\* read all the same, gave the parse error and nothing in the target
C14_Witness ==
    /\ pc = "read"
    /\ arg.filename.ext = "xml"
    /\ disk.exists
    /\ disk.root.name = "Other"
    /\ disk.root.children # <<>>
    /\ ret = "CineCanvasParseError"
    /\ target.Events = <<>>

(***************************************************************************)
(* C15: a save that fails.                                                 *)
(***************************************************************************)
\* C15: when writing the XML document to the output path fails, WriteFile
\* raises CineCanvasWriteError to its caller; it does not return normally after
\* a save that failed.
C15_WriteErrorSurfaced ==
    (pc = "written" /\ doc.exists /\ ~disk.exists) => ret = "CineCanvasWriteError"

\* the document was built, Save left no file, and WriteFile returned
C15_FailedSaveReturns ==
    /\ pc = "written"
    /\ doc.exists
    /\ Len(WrittenSubtitles) >= 1
    /\ ~disk.exists
    /\ ret = "returned"

(***************************************************************************)
(* SpecSettings: the export settings are constructed from an output path   *)
(* and a video frame rate, changed through the dialog's controls, and      *)
(* validated against a subtitle file.                                      *)
(***************************************************************************)
\* the longest file given to Validate, apart from the two long ones below
MaxValidated == 2

\* CineCanvasExportSettings settings(filename, fps)
ConstructSettings ==
    /\ pc = "call"
    /\ ret' = CineCanvasExportSettings(arg.filename, arg.fps)
    /\ pc' = "constructed"
    /\ UNCHANGED <<src, copy, doc, disk, target, arg>>

\* the dialog's controls have set include_font_reference and font_uri, the
\* dialog holds a file or a null pointer, and the warnings are recomputed
UpdateWarnings ==
    /\ pc = "constructed"
    /\ \E include \in BOOLEAN, uri \in {<<>>, <<"f">>}, found \in BOOLEAN :
           \E settings \in {[ret EXCEPT !.include_font_reference = include, !.font_uri = uri]},
              file \in {IF found THEN [found |-> TRUE, it |-> src] ELSE [found |-> FALSE]} :
               ret' = [settings |-> settings, file |-> file,
                       warnings |-> Validate(settings, file)]
    /\ pc' = "warned"
    /\ UNCHANGED <<src, copy, doc, disk, target, arg>>

FilenamePool ==
    { [stem |-> <<"m">>, ext |-> "xml"],
      [stem |-> <<>>, ext |-> "xml"],
      [stem |-> <<" ">>, ext |-> "xml"] }

FpsPool ==
    { Unloaded,
      Framerate(24, 1), Framerate(24000, 1001), Framerate(25, 1),
      Framerate(30000, 1001), Framerate(30, 1), Framerate(48, 1),
      Framerate(50, 1), Framerate(60000, 1001), Framerate(60, 1),
      Framerate(2399, 100), Framerate(2395, 100), Framerate(12, 1),
      Framerate(120, 1) }

Repeated(c, n) == [i \in 1..n |-> c]

ValidateSamples ==
    { AssDialogue(0, 1000, <<"a">>, "Default", FALSE),
      AssDialogue(0, 1000, <<"{", BS, "t", "(", "0", ",", "1", ",", BS, "b", "1", ")", "}", "a">>, "Default", FALSE),
      AssDialogue(0, 1000, <<"{", BS, "m", "o", "v", "e", "(", "1", ",", "2", ",", "3", ",", "4", ")", "}", "a">>, "Default", FALSE),
      AssDialogue(0, 1000, <<"{", BS, "b", "l", "u", "r", "2", "}", "a">>, "Default", FALSE),
      AssDialogue(0, 1000, <<"{", BS, "b", "e", "1", "}", "a">>, "Default", FALSE),
      AssDialogue(0, 1000, <<"{", BS, "f", "s", "c", "x", "5", "0", "}", "a">>, "Default", FALSE),
      AssDialogue(0, 1000, <<"{", BS, "f", "s", "c", "y", "5", "0", "}", "a">>, "Default", FALSE),
      AssDialogue(0, 1000, <<"{", BS, "p", "1", "}", "m", " ", "0", " ", "0">>, "Default", FALSE),
      AssDialogue(0, 1000, <<"{", BS, "i", "1", "}", "a">>, "Default", FALSE),
      AssDialogue(0, 1000, Repeated("x", LongLineLength), "Default", FALSE),
      AssDialogue(0, 1000, Repeated("x", LongLineLength + 1), "Default", FALSE),
      AssDialogue(0, 1000, <<"{", BS, "t", "(", BS, "b", "l", "u", "r", "2", ")", BS, "p", "1", "}">>
                           \o Repeated("x", LongLineLength + 1), "Default", TRUE) }

\* files of up to MaxValidated sample events, and files with as many events
\* as a reel takes, one more, and one more of which one is a comment
ValidateFiles ==
    { [EmptyFile EXCEPT !.Events = events] : events \in SeqsUpTo(ValidateSamples, MaxValidated) }
    \cup { [EmptyFile EXCEPT !.Events = Repeated(AssDialogue(0, 1000, <<"a">>, "Default", FALSE), n)] :
              n \in {MaxSubtitlesPerReel, MaxSubtitlesPerReel + 1} }
    \cup { [EmptyFile EXCEPT !.Events =
               <<AssDialogue(0, 1000, <<"c">>, "Default", TRUE)>>
               \o Repeated(AssDialogue(0, 1000, <<"a">>, "Default", FALSE), MaxSubtitlesPerReel)] }

\* every path and frame rate with the empty file, and every file with the
\* first path and an unloaded frame rate
InitSettings ==
    /\ src \in ValidateFiles
    /\ arg \in [filename : FilenamePool, fps : FpsPool]
    /\ src = EmptyFile \/ arg = [filename |-> Filename, fps |-> Unloaded]
    /\ copy = EmptyFile /\ doc = NoDocument /\ disk = NoDocument /\ target = EmptyFile
    /\ pc = "call"
    /\ ret = <<>>

NextSettings == ConstructSettings \/ UpdateWarnings

SpecSettings == InitSettings /\ [][NextSettings]_vars

(***************************************************************************)
(* C16: the frame-rate choice of freshly constructed settings.             *)
(***************************************************************************)
\* the nominal rate of each choice, in thousandths of a frame per second
ChoiceMilli ==
    [FPS_23_976 |-> 23976, FPS_24 |-> 24000, FPS_25 |-> 25000, FPS_29_97 |-> 29970,
     FPS_30 |-> 30000, FPS_48 |-> 48000, FPS_50 |-> 50000, FPS_59_94 |-> 59940,
     FPS_60 |-> 60000]

\* the distance between a loaded rate and a choice, times 1000 * fps.den
ChoiceDistance(fps, choice) ==
    IF fps.num * 1000 >= ChoiceMilli[choice] * fps.den
    THEN fps.num * 1000 - ChoiceMilli[choice] * fps.den
    ELSE ChoiceMilli[choice] * fps.den - fps.num * 1000

\* the choices nearest to a loaded rate
ClosestChoices(fps) ==
    {c \in DOMAIN ChoiceMilli :
        \A d \in DOMAIN ChoiceMilli : ChoiceDistance(fps, c) <= ChoiceDistance(fps, d)}

\* C16: constructed settings carry the frame-rate choice closest to the loaded
\* video rate when that choice lies within 0.1 fps of it (24.0 selects 24,
\* 30.0 selects 30, 60.0 selects 60, 23.976 selects 23.976), and 24 when no
\* video is loaded or no choice lies within 0.1 fps
C16_ClosestFrameRate ==
    pc = "constructed" =>
        IF arg.fps.loaded /\ \E c \in ClosestChoices(arg.fps) : ChoiceDistance(arg.fps, c) < 100 * arg.fps.den
        THEN ret.frame_rate \in ClosestChoices(arg.fps)
        ELSE ret.frame_rate = "FPS_24"

\* a 24.0 fps video has given settings whose choice is 23.976
C16_TwentyFourSelectsNtscFilm ==
    /\ pc = "constructed"
    /\ arg.fps = Framerate(24, 1)
    /\ ret.frame_rate = "FPS_23_976"

(***************************************************************************)
(* C17: the other fields of freshly constructed settings.                  *)
(***************************************************************************)
\* C17: constructed settings carry the stem of the output path as the movie
\* title, or Untitled when the stem is empty, so the title is never empty;
\* the reel number is 1, the language en, no font reference is included and
\* the font URI is empty
C17_ConstructedDefaults ==
    pc = "constructed" =>
        /\ ret.movie_title = IF arg.filename.stem = <<>>
                             THEN <<"U", "n", "t", "i", "t", "l", "e", "d">>
                             ELSE arg.filename.stem
        /\ ret.movie_title # <<>>
        /\ ret.reel_number = 1
        /\ ret.language_code = <<"e", "n">>
        /\ ~ret.include_font_reference
        /\ ret.font_uri = <<>>

\* a path with an empty stem has given settings with an empty movie title
\* and the other fields at their defaults
C17_EmptyStemEmptyTitle ==
    /\ pc = "constructed"
    /\ arg.filename.stem = <<>>
    /\ ret.movie_title = <<>>
    /\ ret.reel_number = 1
    /\ ret.language_code = <<"e", "n">>
    /\ ~ret.include_font_reference
    /\ ret.font_uri = <<>>

(***************************************************************************)
(* C20: the warnings of Validate.                                          *)
(***************************************************************************)
\* needle occurs in text
OccursIn(needle, text) ==
    \E p \in 1..(Len(text) - Len(needle) + 1) : SubSeq(text, p, p + Len(needle) - 1) = needle

\* the positions of the events of a file that are not comments
ShownAt(file) == {i \in 1..Len(file.Events) : ~file.Events[i].Comment}

\* some event that is not a comment has one of the needles in its text
SomeShownHas(file, needles) ==
    \E i \in ShownAt(file) : \E needle \in needles : OccursIn(needle, file.Events[i].Text)

\* the warnings in the order of the claim, each with the condition under
\* which it is raised
WarningTable(settings, file) ==
    << [on |-> Cardinality(ShownAt(file)) > 500,
        text |-> "Warning: File contains " \o ToString(Cardinality(ShownAt(file)))
                 \o " subtitles. DCP typically limits to ~500 per reel."],
       [on |-> SomeShownHas(file, {<<BS, "t">>, <<BS, "m", "o", "v", "e">>}),
        text |-> "Warning: Animations (\\t, \\move) will be lost in export."],
       [on |-> SomeShownHas(file, {<<BS, "b", "l", "u", "r">>, <<BS, "b", "e">>,
                                   <<BS, "f", "s", "c", "x">>, <<BS, "f", "s", "c", "y">>}),
        text |-> "Warning: Complex effects (\\blur, \\be, scaling) will be lost in export."],
       [on |-> SomeShownHas(file, {<<BS, "p">>}),
        text |-> "Warning: Vector drawings (\\p) are not supported and will be lost."],
       [on |-> \E i \in ShownAt(file) : Len(file.Events[i].Text) > 80,
        text |-> "Warning: Some lines are very long. Cinema subtitles typically use 40-50 characters per line."],
       [on |-> settings.include_font_reference /\ settings.font_uri = <<>>,
        text |-> "Warning: Font reference enabled but no font file selected."],
       [on |-> TRUE,
        text |-> "Note: DCP uses XYZ color space. Color appearance may differ from ASS preview."] >>

\* the texts of the rows that are on, a newline between one and the next
RECURSIVE NewlineJoined(_)
NewlineJoined(rows) ==
    IF rows = <<>> THEN ""
    ELSE IF ~Head(rows).on THEN NewlineJoined(Tail(rows))
    ELSE IF \E k \in 2..Len(rows) : rows[k].on
         THEN Head(rows).text \o "\n" \o NewlineJoined(Tail(rows))
         ELSE Head(rows).text

MaxCodeLen == 4

\* ValidateLanguageCode on the code, and then on what it returned
CallValidateLanguageCode ==
    /\ pc \in {"call", "language"}
    /\ \E code \in {IF pc = "call" THEN arg.code ELSE ret.out} :
           ret' = [in |-> code, out |-> ValidateLanguageCode(code)]
    /\ pc' = IF pc = "call" THEN "language" ELSE "again"
    /\ UNCHANGED <<src, copy, doc, disk, target, arg>>

CallValidateFrameRate ==
    /\ pc = "call"
    /\ ret' = [in |-> arg.fps, out |-> ValidateFrameRate(arg.fps)]
    /\ pc' = "rate"
    /\ UNCHANGED <<src, copy, doc, disk, target, arg>>

CodePool ==
    SeqsUpTo({"E", "N", "d", "e", "n", "u", "1"}, MaxCodeLen)
    \cup {<<"x", "y", "z", "z", "y">>, <<"F", "r", "a">>, <<"z", "h">>, <<"e", "n", "-">>,
          <<"e", " ">>, <<" ", "e", "n">>}

RatePool == {-1, 0, 1, 23, 24, 25, 26, 29, 30, 31, 48, 50, 60, 120, 24000}

InitConfig ==
    /\ src = EmptyFile /\ copy = EmptyFile /\ doc = NoDocument /\ disk = NoDocument
    /\ target = EmptyFile
    /\ pc = "call"
    /\ arg \in [code : CodePool, fps : RatePool]
    /\ arg.code = <<"e", "n">> \/ arg.fps = DEFAULT_FRAME_RATE
    /\ ret = <<>>

NextConfig == CallValidateLanguageCode \/ CallValidateFrameRate

SpecConfig == InitConfig /\ [][NextConfig]_vars

(***************************************************************************)
(* C18: ValidateLanguageCode.                                              *)
(***************************************************************************)
LowerLetters ==
    {"a", "b", "c", "d", "e", "f", "g", "h", "i", "j", "k", "l", "m", "n", "o", "p", "q", "r", "s", "t", "u", "v", "w", "x", "y", "z"}

UpperToLower ==
    [c \in {"A", "B", "C", "D", "E", "F", "G", "H", "I", "J", "K", "L", "M", "N", "O", "P", "Q", "R", "S", "T", "U", "V", "W", "X", "Y", "Z"} |->
        CASE c = "A" -> "a" [] c = "B" -> "b" [] c = "C" -> "c" [] c = "D" -> "d"
          [] c = "E" -> "e" [] c = "F" -> "f" [] c = "G" -> "g" [] c = "H" -> "h"
          [] c = "I" -> "i" [] c = "J" -> "j" [] c = "K" -> "k" [] c = "L" -> "l"
          [] c = "M" -> "m" [] c = "N" -> "n" [] c = "O" -> "o" [] c = "P" -> "p"
          [] c = "Q" -> "q" [] c = "R" -> "r" [] c = "S" -> "s" [] c = "T" -> "t"
          [] c = "U" -> "u" [] c = "V" -> "v" [] c = "W" -> "w" [] c = "X" -> "x"
          [] c = "Y" -> "y" [] c = "Z" -> "z"]

\* a code with every capital letter replaced by its small letter
Lowercased(code) ==
    [k \in 1..Len(code) |-> IF code[k] \in DOMAIN UpperToLower THEN UpperToLower[code[k]] ELSE code[k]]

\* what the validation is to return for a code whose lowercase form is low
ExpectedCode(low) ==
    IF \/ low \in VALID_LANGUAGE_CODES
       \/ Len(low) \in {2, 3} /\ \A k \in 1..Len(low) : low[k] \in LowerLetters
    THEN low
    ELSE <<"e", "n">>

\* C18: ValidateLanguageCode returns the lowercased code when it is in the
\* curated set or has only letters and length 2 or 3, and en for every other
\* input (empty, one letter, four or more characters, a non-letter): EN gives
\* en, xyzzy gives en, de gives de, deu gives deu; validating the result
\* again returns it unchanged
C18_ValidateLanguageCode ==
    pc \in {"language", "again"} =>
        /\ ret.out = ExpectedCode(Lowercased(ret.in))
        /\ ret.in = <<"E", "N">> => ret.out = <<"e", "n">>
        /\ ret.in = <<"x", "y", "z", "z", "y">> => ret.out = <<"e", "n">>
        /\ ret.in = <<"d", "e">> => ret.out = <<"d", "e">>
        /\ ret.in = <<"d", "e", "u">> => ret.out = <<"d", "e", "u">>
        /\ pc = "again" => ret.out = ret.in

\* the code dEu has been validated to deu, and deu validated again to deu
C18_Witness ==
    /\ pc = "again"
    /\ arg.code = <<"d", "E", "u">>
    /\ ret.in = <<"d", "e", "u">>
    /\ ret.out = <<"d", "e", "u">>

(***************************************************************************)
(* C19: ValidateFrameRate.                                                 *)
(***************************************************************************)
\* C19 as stated: ValidateFrameRate returns fps unchanged when fps is one of
\* 24, 25, 30, 48, 50, 60 and 24 for any other input
C19_SixRatesKept ==
    pc = "rate" => ret.out = IF ret.in \in {24, 25, 30, 48, 50, 60} THEN ret.in ELSE 24

\* C19 amended: ValidateFrameRate returns fps unchanged when fps is one of
\* 24, 25, 30 and 24 for any other input, 48, 50 and 60 among them
C19_ThreeRatesKept ==
    pc = "rate" => ret.out = IF ret.in \in {24, 25, 30} THEN ret.in ELSE 24

\* 48 has been validated to 24
C19_Witness ==
    /\ pc = "rate"
    /\ ret.in = 48
    /\ ret.out = 24

(***************************************************************************)
(* SpecText: one event whose text is made of at most MaxPieces pieces:     *)
(* letters, blanks, tabs, line breaks, bold and italic tag blocks; or one  *)
(* of a few longer texts, on a plain and on a bold style.                  *)
(***************************************************************************)
StyledPieces ==
    { <<"a">>, <<" ">>, <<"\t">>, <<BS, "N">>, <<BS, "n">>,
      <<"{", BS, "b", "1", "}">>, <<"{", BS, "b", "0", "}">>, <<"{", BS, "i", "1", "}">> }

LongerTexts ==
    { <<"a", " ", "{", BS, "b", "1", "}", "b", "{", BS, "b", "0", "}", " ", "c">>,
      <<"{", BS, "b", "1", "}", "a", " ", "{", BS, "i", "1", "}", "b", "{", BS, "b", "0", "}", "c",
        "{", BS, "i", "0", "}", " ", "d">>,
      <<"{", BS, "b", "1", "}", " ", "a", " ", "{", BS, "i", "1", "}", "{", BS, "i", "0", "}", "b", " ">>,
      <<"{", BS, "b", "1", "}", "{", BS, "i", "1", "}", BS, "N", " ", "\t", "{", BS, "b", "0", "}">>,
      <<"{", BS, "b", "1", "}", "a", "{", BS, "i", "1", "}", "b">> }

BoldStyle == AssStyle("Default", Arial, 42, TRUE, FALSE, White, Black, 2)

InitText ==
    /\ arg \in [filename : {Filename}, fps : {Unloaded},
                 text : TextsOf(StyledPieces, MaxPieces) \cup LongerTexts,
                 style : {DefaultStyle, BoldStyle}]
    /\ arg.style = DefaultStyle \/ arg.text \in LongerTexts
    /\ src = [Events |-> <<AssDialogue(1000, 3000, arg.text, "Default", FALSE)>>,
              Styles |-> <<arg.style>>,
              Info |-> NoInfo]
    /\ copy = EmptyFile
    /\ doc = NoDocument
    /\ disk = NoDocument
    /\ target = EmptyFile
    /\ pc = "init"
    /\ ret = <<>>

SpecText == InitText /\ [][Next]_vars

(***************************************************************************)
(* C21: the placeholder of an event without visible text.                  *)
(***************************************************************************)
\* s without the line breaks: \N, or \n when s has no \N
RECURSIVE WithoutBreaks(_, _)
WithoutBreaks(s, break) ==
    IF s = <<>> THEN <<>>
    ELSE IF Len(s) >= 2 /\ SubSeq(s, 1, 2) = break THEN WithoutBreaks(SubSeq(s, 3, Len(s)), break)
    ELSE <<Head(s)>> \o WithoutBreaks(Tail(s), break)

\* the text shows nothing: outside its tag blocks and apart from its line
\* breaks it has only spaces and tabs
ShowsNothing(text) ==
    \A k \in 1..Len(WithoutBreaks(text, IF OccursIn(<<BS, "N">>, text) THEN <<BS, "N">> ELSE <<BS, "n">>)) :
        WithoutBreaks(text, IF OccursIn(<<BS, "N">>, text) THEN <<BS, "N">> ELSE <<BS, "n">>)[k]
            \in {" ", "\t"}

\* what a Text element shows: the contents of its text nodes and of its inline
\* Font elements, in document order
ShownBy(textElement) ==
    Flatten([i \in 1..Len(textElement.children) |->
                IF textElement.children[i].type = "text" THEN textElement.children[i].content
                ELSE GetNodeContent(textElement.children[i])])

\* the Subtitle holds one Font that holds one Text at 10.0 without content
IsPlaceholder(sub) ==
    /\ Len(sub.children) = 1
    /\ IsElement(sub.children[1], "Font")
    /\ Len(sub.children[1].children) = 1
    /\ IsElement(sub.children[1].children[1], "Text")
    /\ GetAttribute(sub.children[1].children[1], "VPosition", <<>>) = <<"1", "0", ".", "0">>
    /\ ShownBy(sub.children[1].children[1]) = <<>>

\* C21: for an event whose text has no visible character other than spaces and
\* tabs (empty, only blanks, only line breaks, only tag blocks), WriteSubtitle
\* emits one Font holding one Text with VPosition 10.0 and empty content; for
\* any other event every Text has content; so every written Subtitle holds at
\* least one Text element
C21_PlaceholderForEmptyText ==
    (pc # "init" /\ doc.exists) =>
        /\ Len(WrittenSubtitles) = 1
        /\ Len(TextsUnder(WrittenSubtitles[1])) >= 1
        /\ IF ShowsNothing(WithoutBlocks(arg.text))
           THEN IsPlaceholder(WrittenSubtitles[1])
           ELSE \A i \in 1..Len(TextsUnder(WrittenSubtitles[1])) :
                    ShownBy(TextsUnder(WrittenSubtitles[1])[i]) # <<>>

\* a text of a bold tag block, a line break and a tab was written as the
\* placeholder
C21_Witness ==
    /\ pc = "written"
    /\ arg.text = <<"{", BS, "b", "1", "}", BS, "N", "\t">>
    /\ IsPlaceholder(WrittenSubtitles[1])

(***************************************************************************)
(* C22: the runs of a line.                                                *)
(***************************************************************************)
\* the segments of each line of text that shows something, from the top down
SegmentsOfLines(rawLines, bold, italic) ==
    SelectSeq([k \in 1..Len(rawLines) |-> ParseStyledSegments(rawLines[k], bold, italic)],
              LAMBDA segs : Trimmed(SegmentsText(segs)) # <<>>)

\* child is what the writer is to emit for one segment of a mixed line
IsRunOf(child, seg) ==
    IF ~seg.bold /\ ~seg.italic
    THEN child = TextNode(seg.text)
    ELSE /\ IsElement(child, "Font")
         /\ Len(child.attrs) = (IF seg.bold THEN 1 ELSE 0) + (IF seg.italic THEN 1 ELSE 0)
         /\ seg.bold => GetAttribute(child, "Weight", "") = "bold"
         /\ seg.italic => GetAttribute(child, "Italic", "") = "yes"
         /\ child.children = <<TextNode(seg.text)>>

\* font is what the writer is to emit for a line of these segments
IsLineOf(font, segs) ==
    /\ Len(font.children) = 1
    /\ IsElement(font.children[1], "Text")
    /\ IF \A k \in 1..Len(segs) : segs[k].bold = segs[1].bold /\ segs[k].italic = segs[1].italic
       THEN /\ GetAttribute(font, "Weight", "") = (IF segs[1].bold THEN "bold" ELSE "normal")
            /\ GetAttribute(font, "Italic", "") = (IF segs[1].italic THEN "yes" ELSE "no")
            /\ font.children[1].children = <<TextNode(Trimmed(SegmentsText(segs)))>>
       ELSE /\ GetAttribute(font, "Weight", "") = "normal"
            /\ GetAttribute(font, "Italic", "") = "no"
            /\ Len(font.children[1].children) = Len(segs)
            /\ \A k \in 1..Len(segs) : IsRunOf(font.children[1].children[k], segs[k])

LinesAre(fonts, lines) ==
    lines # <<>> =>
        /\ Len(fonts) = Len(lines)
        /\ \A i \in 1..Len(lines) : IsLineOf(fonts[i], lines[i])

TimeTable ==
    { [str |-> <<"0", "0", ":", "0", "0", ":", "0", "1", ":", "0", "0", "0">>, ms |-> 1000],
      [str |-> <<"0", "0", ":", "0", "0", ":", "0", "1", ".", "0", "0", "0">>, ms |-> 1000],
      [str |-> <<"0", "1", ":", "0", "2", ":", "0", "3", ":", "4", "5", "6">>, ms |-> 3723456],
      [str |-> <<"0", "1", ":", "0", "2", ":", "0", "3", ".", "4", "5", "6">>, ms |-> 3723456],
      [str |-> <<"0", "0", ":", "0", "0", ":", "5", "9", ":", "9", "9", "9">>, ms |-> 59999],
      [str |-> <<"0", "0", ":", "0", "0", ":", "5", "9", ".", "9", "9", "9">>, ms |-> 59999],
      [str |-> <<"a", "b", "c">>, ms |-> 0],
      [str |-> <<>>, ms |-> 0],
      [str |-> <<"0", "0", ":", "0", "0", ":", "0", "1">>, ms |-> 0],
      [str |-> <<"0", "0", ":", "0", "0", ":", "0", "1", ",", "0", "0", "0">>, ms |-> 0],
      [str |-> <<"1", "2", ":", "3", "4">>, ms |-> 0] }

\* a Subtitle of one line Hi with the given attributes
TimedSubtitle(attrs) ==
    WithChildren(WithAttributes(Element("Subtitle"), attrs),
        << WithChildren(Element("Font"), << TextAt(<<"1", "0", ".", "0">>, <<"H", "i">>) >>) >>)

TimeAttributes(key) == {<<>>} \cup { << <<key, r.str>> >> : r \in TimeTable }

InitReadTime ==
    /\ src = EmptyFile
    /\ copy = EmptyFile
    /\ doc = NoDocument
    /\ disk \in { SavedDocument(WithChildren(Element("DCSubtitle"),
                      << WithChildren(Element("Font"), << TimedSubtitle(in \o out) >>) >>)) :
                    in \in TimeAttributes("TimeIn"), out \in TimeAttributes("TimeOut") }
    /\ target = EmptyFile
    /\ pc = "init"
    /\ arg \in [filename : [stem : {<<"m">>}, ext : {"xml", "txt"}], fps : {Unloaded}]
    /\ ret = <<>>

SpecReadTime == InitReadTime /\ [][NextRead]_vars

(***************************************************************************)
(* C23: the times of an event read.                                        *)
(***************************************************************************)
\* the one Subtitle of the file
OnlySubtitle == ChildrenNamed(ChildrenNamed(disk.root, "Font")[1], "Subtitle")[1]

\* the milliseconds of an attribute of the Subtitle, missing when there is none
MsOf(key, missing) ==
    IF AttributeAt(OnlySubtitle, key) = {} THEN missing
    ELSE (CHOOSE r \in TimeTable : r.str = GetAttribute(OnlySubtitle, key, <<>>)).ms

\* C23: the start and end of the event of a Subtitle are its TimeIn and
\* TimeOut; HH:MM:SS:mmm and HH:MM:SS.mmm of the same digits give the same
\* milliseconds; a missing TimeIn gives 0 ms and a missing TimeOut 5000 ms;
\* an attribute in neither format gives 0 ms; ReadFile raises in none of
\* these cases
C23_ReaderTimes ==
    pc = "read" =>
        /\ ret = "returned"
        /\ Len(target.Events) = 1
        /\ target.Events[1].Start = MsOf("TimeIn", 0)
        /\ target.Events[1].End = MsOf("TimeOut", 5000)

\* TimeIn 01:02:03.456 and no TimeOut: the event runs from 3723456 ms to 5000 ms
C23_Witness ==
    /\ pc = "read"
    /\ GetAttribute(OnlySubtitle, "TimeIn", <<>>)
           = <<"0", "1", ":", "0", "2", ":", "0", "3", ".", "4", "5", "6">>
    /\ AttributeAt(OnlySubtitle, "TimeOut") = {}
    /\ target.Events[1].Start = 3723456
    /\ target.Events[1].End = 5000

(***************************************************************************)
(* C24: an event with more than one fade tag.                              *)
(***************************************************************************)
\* the last of the lines that carry a fade tag
LastFadeLine(lines) == CHOOSE i \in FadeLines(lines) : \A j \in FadeLines(lines) : j <= i

\* C24: when the text of an event has more than one \fad or \fade tag, the
\* FadeUpTime and FadeDownTime written are those of the last one in the text
C24_LastFadeWins ==
    (pc # "init" /\ doc.exists /\ FadeLines(arg.lines) # {}) =>
        /\ GetAttribute(WrittenSubtitles[1], "FadeUpTime", <<>>)
               = FadeAsked(arg.lines[LastFadeLine(arg.lines)])[1]
        /\ GetAttribute(WrittenSubtitles[1], "FadeDownTime", <<>>)
               = FadeAsked(arg.lines[LastFadeLine(arg.lines)])[2]

\* {\fad(100,250)}Hi over {\fad(50)}Hi was written with FadeUpTime 100 and
\* FadeDownTime 250, the times of the first tag
C24_FirstFadeWritten ==
    /\ pc = "written"
    /\ arg.lines = <<FadPair \o <<"H", "i">>, FadSingle \o <<"H", "i">> >>
    /\ GetAttribute(WrittenSubtitles[1], "FadeUpTime", <<>>) = <<"1", "0", "0">>
    /\ GetAttribute(WrittenSubtitles[1], "FadeDownTime", <<>>) = <<"2", "5", "0">>

(***************************************************************************)
(* Events with colour and alpha override tags.                             *)
(***************************************************************************)
\* override tags, with what they ask for in the digits of the written file:
\* RRGGBB for a primary (c) or outline (o) colour, AA for a primary alpha (a)
ColourTags ==
    <<[tag |-> <<BS, "c", "&", "H", "0", "0", "0", "0", "F", "F", "&">>,
        kind |-> "c", cinema |-> <<"F", "F", "0", "0", "0", "0">>],
       [tag |-> <<BS, "1", "c", "&", "H", "0", "0", "F", "F", "0", "0", "&">>,
        kind |-> "c", cinema |-> <<"0", "0", "F", "F", "0", "0">>],
       [tag |-> <<BS, "c", "&", "H", "5", "6", "3", "4", "1", "2", "&">>,
        kind |-> "c", cinema |-> <<"1", "2", "3", "4", "5", "6">>],
       [tag |-> <<BS, "1", "c", "&", "H", "a", "b", "c", "d", "e", "f", "&">>,
        kind |-> "c", cinema |-> <<"E", "F", "C", "D", "A", "B">>],
       [tag |-> <<BS, "1", "a", "&", "H", "8", "0", "&">>,
        kind |-> "a", cinema |-> <<"7", "F">>],
       [tag |-> <<BS, "a", "&", "H", "F", "F", "&">>,
        kind |-> "a", cinema |-> <<"0", "0">>],
       [tag |-> <<BS, "a", "&", "H", "0", "0", "&">>,
        kind |-> "a", cinema |-> <<"F", "F">>],
       [tag |-> <<BS, "3", "c", "&", "H", "0", "0", "0", "0", "F", "F", "&">>,
        kind |-> "o", cinema |-> <<"F", "F", "0", "0", "0", "0">>],
       [tag |-> <<BS, "3", "c", "&", "H", "1", "1", "2", "2", "3", "3", "&">>,
        kind |-> "o", cinema |-> <<"3", "3", "2", "2", "1", "1">>]>>

TagChoices == {<<>>} \cup {<<i>> : i \in DOMAIN ColourTags}
                  \cup {<<i, j>> : i, j \in DOMAIN ColourTags}

RECURSIVE TagBlocks(_)
TagBlocks(tags) ==
    IF tags = <<>> THEN <<>>
    ELSE <<"{">> \o ColourTags[Head(tags)].tag \o <<"}">> \o TagBlocks(Tail(tags))

\* the text of the event: one line, two lines, or a line of mixed styling
\* over a second line
ColouredText(first, second, shape) ==
    CASE shape = "one" -> TagBlocks(first) \o <<"H", "i">> \o TagBlocks(second)
      [] shape = "two" -> TagBlocks(first) \o <<"H", "i", BS, "N">> \o TagBlocks(second) \o <<"y", "o">>
      [] shape = "mixed" -> TagBlocks(first) \o <<"a", "{", BS, "b", "1", "}", "b", BS, "N">>
                                \o TagBlocks(second) \o <<"y", "o">>

InitColour ==
    /\ arg \in [filename : {Filename}, fps : {Unloaded},
                 first : TagChoices, second : {t \in TagChoices : Len(t) <= 1},
                 shape : {"one", "two", "mixed"}]
    /\ src = [Events |-> <<AssDialogue(1000, 3000,
                              ColouredText(arg.first, arg.second, arg.shape),
                              "Default", FALSE)>>,
              Styles |-> <<DefaultStyle>>, Info |-> NoInfo]
    /\ copy = EmptyFile /\ doc = NoDocument /\ disk = NoDocument /\ target = EmptyFile
    /\ pc = "init" /\ ret = <<>>

SpecColour == InitColour /\ [][Next]_vars

(***************************************************************************)
(* C25: the Color of the per-line Fonts under colour and alpha overrides.  *)
(***************************************************************************)
\* what the last tag of a kind asks for, or missing when the text has none
LastAsked(tags, kind, missing) ==
    IF \E k \in 1..Len(tags) : ColourTags[tags[k]].kind = kind
    THEN ColourTags[tags[CHOOSE k \in 1..Len(tags) :
                        /\ ColourTags[tags[k]].kind = kind
                        /\ \A j \in (k + 1)..Len(tags) : ColourTags[tags[j]].kind # kind]].cinema
    ELSE missing

\* C25: every per-line Font of an event has Color RRGGBBAA, RRGGBB the BGR
\* digits of the last \1c or \c tag of the text in the order red, green, blue
\* (the colour of the style when there is none) and AA 255 minus the alpha of
\* the last \1a or \a tag (FF when there is none); a \3c tag changes only
\* EffectColor
C25_ColourOverride ==
    (pc # "init" /\ doc.exists) =>
        \A k \in 1..Len(ChildrenNamed(WrittenSubtitles[1], "Font")) :
            /\ GetAttribute(ChildrenNamed(WrittenSubtitles[1], "Font")[k], "Color", <<>>)
                   = LastAsked(arg.first \o arg.second, "c", <<"F", "F", "F", "F", "F", "F">>)
                         \o LastAsked(arg.first \o arg.second, "a", <<"F", "F">>)
            /\ GetAttribute(ChildrenNamed(WrittenSubtitles[1], "Font")[k], "EffectColor", <<>>)
                   = LastAsked(arg.first \o arg.second, "o", <<"0", "0", "0", "0", "0", "0">>)
                         \o <<"F", "F">>

\* {\c&H0000FF&}{\c&H563412&}Hi\N{\1a&H80&}yo was written as two Fonts of
\* Color 1234567F
C25_Witness ==
    /\ pc = "written"
    /\ arg.first = <<1, 3>> /\ arg.second = <<5>> /\ arg.shape = "two"
    /\ Len(ChildrenNamed(WrittenSubtitles[1], "Font")) = 2
    /\ \A k \in 1..2 :
           GetAttribute(ChildrenNamed(WrittenSubtitles[1], "Font")[k], "Color", <<>>)
               = <<"1", "2", "3", "4", "5", "6", "7", "F">>

(***************************************************************************)
(* Files of one Subtitle with up to three Text elements at chosen          *)
(* VPositions, in a Font or right under the Subtitle.                      *)
(***************************************************************************)
\* VPosition attributes with their value in tenths; given is FALSE for a Text
\* without the attribute
VPositions ==
    { [given |-> TRUE, vpos |-> <<"2", "3", ".", "0">>, tenths |-> 230],
      [given |-> TRUE, vpos |-> <<"1", "6", ".", "5">>, tenths |-> 165],
      [given |-> TRUE, vpos |-> <<"1", "0", ".", "0">>, tenths |-> 100],
      [given |-> FALSE, vpos |-> <<>>, tenths |-> 100],
      [given |-> TRUE, vpos |-> <<"5">>, tenths |-> 50],
      [given |-> TRUE, vpos |-> <<"3", ".", "5">>, tenths |-> 35] }

PlacedTexts(content) ==
    { [at |-> v, content |-> c] : v \in VPositions, c \in {content, <<>>} }

PlacedLists ==
    {<<a>> : a \in PlacedTexts(<<"o", "n", "e">>)}
    \cup {<<a, b>> : a \in PlacedTexts(<<"o", "n", "e">>), b \in PlacedTexts(<<"t", "w", "o">>)}
    \cup {<<a, b, c>> : a \in PlacedTexts(<<"o", "n", "e">>), b \in PlacedTexts(<<"t", "w", "o">>),
                        c \in PlacedTexts(<<"s", "i", "x">>)}

PlacedNode(t) ==
    WithChildren(IF t.at.given THEN AddAttribute(Element("Text"), "VPosition", t.at.vpos)
                 ELSE Element("Text"),
                 IF t.content = <<>> THEN <<>> ELSE <<TextNode(t.content)>>)

PlacedSubtitle(texts, under) ==
    IF under = "Font"
    THEN WithChildren(Element("Subtitle"),
             << WithChildren(Element("Font"), [k \in 1..Len(texts) |-> PlacedNode(texts[k])]) >>)
    ELSE WithChildren(Element("Subtitle"), [k \in 1..Len(texts) |-> PlacedNode(texts[k])])

InitReadLines ==
    /\ src = EmptyFile
    /\ copy = EmptyFile
    /\ doc = NoDocument
    /\ arg \in [filename : [stem : {<<"m">>}, ext : {"xml", "txt"}], fps : {Unloaded},
                 texts : PlacedLists, under : {"Font", "Subtitle"}]
    /\ disk = SavedDocument(WithChildren(Element("DCSubtitle"),
                  << WithChildren(Element("Font"), << PlacedSubtitle(arg.texts, arg.under) >>) >>))
    /\ target = EmptyFile
    /\ pc = "init"
    /\ ret = <<>>

SpecReadLines == InitReadLines /\ [][NextRead]_vars

(***************************************************************************)
(* C26: the order of the lines of an event read.                           *)
(***************************************************************************)
\* the Text elements with content
Collected(texts) == {k \in 1..Len(texts) : texts[k].content # <<>>}

\* the highest of the Text elements S
Highest(texts, S) == CHOOSE k \in S : \A j \in S : texts[j].at.tenths <= texts[k].at.tenths

\* the contents of the Text elements S from the highest down, joined by \N
RECURSIVE JoinedDescending(_, _)
JoinedDescending(texts, S) ==
    IF S = {} THEN <<>>
    ELSE IF Cardinality(S) = 1 THEN texts[Highest(texts, S)].content
    ELSE texts[Highest(texts, S)].content \o <<BS, "N">>
             \o JoinedDescending(texts, S \ {Highest(texts, S)})

\* C26: when the Text elements with content of a Subtitle have pairwise
\* distinct VPositions, a Text without the attribute standing at 10.0, the
\* text of the event is their contents joined by \N from the highest
\* VPosition down, whatever their order in the document
C26_ReaderLineOrder ==
    ( /\ pc = "read"
      /\ Collected(arg.texts) # {}
      /\ \A i, j \in Collected(arg.texts) :
             i # j => arg.texts[i].at.tenths # arg.texts[j].at.tenths ) =>
        /\ ret = "returned"
        /\ Len(target.Events) = 1
        /\ target.Events[1].Text = JoinedDescending(arg.texts, Collected(arg.texts))

\* one at 3.5, two without VPosition and six at 23.0, in this order in the
\* file, were read as six\Ntwo\None
C26_Witness ==
    /\ pc = "read"
    /\ Len(arg.texts) = 3
    /\ arg.texts[1].at.tenths = 35 /\ ~arg.texts[2].at.given /\ arg.texts[3].at.tenths = 230
    /\ Len(target.Events) = 1
    /\ target.Events[1].Text
           = <<"s", "i", "x", BS, "N", "t", "w", "o", BS, "N", "o", "n", "e">>

(***************************************************************************)
(* One event with a fade tag written and read back, and files of one       *)
(* Subtitle with and without fade attributes.                              *)
(***************************************************************************)
\* fade times with their decimal digits
FadeTimes ==
    { [ms |-> 0, str |-> <<"0">>], [ms |-> 1, str |-> <<"1">>],
      [ms |-> 50, str |-> <<"5", "0">>], [ms |-> 250, str |-> <<"2", "5", "0">>],
      [ms |-> 1000, str |-> <<"1", "0", "0", "0">>] }

\* the tag \fad(a,b) in a block
FadTag(a, b) ==
    <<"{", BS, "f", "a", "d", "(">> \o a.str \o <<",">> \o b.str \o <<")", "}">>

\* the fade asked for: none, or the two times of a tag
FadeChoices ==
    {[tagged |-> FALSE, up |-> t, down |-> t] : t \in {r \in FadeTimes : r.ms = 0}}
    \cup {[tagged |-> TRUE, up |-> a, down |-> b] : a, b \in FadeTimes}

\* texts of one line without a tag
PlainTexts == { <<"H", "i">>, <<"a", " ", "b">>, <<"(", "1", ",", "2", ")">> }

\* the fade attributes a Subtitle of a file may carry, with the tag they give
FadeAttributes ==
    { [attrs |-> <<>>, tag |-> <<>>],
      [attrs |-> << <<"FadeUpTime", <<"0">> >>, <<"FadeDownTime", <<"0">> >> >>, tag |-> <<>>],
      [attrs |-> << <<"FadeUpTime", <<"0">> >> >>, tag |-> <<>>],
      [attrs |-> << <<"FadeDownTime", <<"2", "5", "0">> >> >>,
       tag |-> <<"{", BS, "f", "a", "d", "(", "0", ",", "2", "5", "0", ")", "}">>],
      [attrs |-> << <<"FadeUpTime", <<"5", "0">> >>, <<"FadeDownTime", <<"0">> >> >>,
       tag |-> <<"{", BS, "f", "a", "d", "(", "5", "0", ",", "0", ")", "}">>] }

InitFade ==
    /\ arg \in [filename : {Filename}, fps : {Unloaded},
                 fade : FadeChoices, text : PlainTexts, found : FadeAttributes]
    /\ src = [Events |-> <<AssDialogue(1000, 3000,
                              (IF arg.fade.tagged THEN FadTag(arg.fade.up, arg.fade.down)
                               ELSE <<>>) \o arg.text,
                              "Default", FALSE)>>,
              Styles |-> <<DefaultStyle>>, Info |-> NoInfo]
    /\ copy = EmptyFile /\ doc = NoDocument /\ target = EmptyFile
    /\ disk = SavedDocument(WithChildren(Element("DCSubtitle"),
                  << WithChildren(Element("Font"),
                         << WithChildren(WithAttributes(Element("Subtitle"), arg.found.attrs),
                                << WithChildren(Element("Font"),
                                       << TextAt(<<"1", "0", ".", "0">>, <<"L", "o">>) >>) >>) >>) >>))
    /\ pc = "init" /\ ret = <<>>

SpecFade == InitFade /\ [][Next]_vars

FontOf(subs) == WithChildren(Element("Font"), subs)

InitReadOrder ==
    /\ src = EmptyFile
    /\ copy = EmptyFile
    /\ doc = NoDocument
    /\ disk \in { SavedDocument(WithChildren(Element("DCSubtitle"), fonts)) :
                    fonts \in {<<FontOf(a)>> : a \in SeqsUpTo(SubtitleSamples, MaxSubtitles)}
                         \cup {<<FontOf(a), FontOf(b)>> :
                                 a, b \in SeqsUpTo(SubtitleSamples, MaxSubtitles)} }
    /\ target = EmptyFile
    /\ pc = "init"
    /\ arg \in [filename : [stem : {<<"m">>}, ext : {"xml"}], fps : {Unloaded}]
    /\ ret = <<>>

SpecReadOrder == InitReadOrder /\ [][NextRead]_vars

(***************************************************************************)
(* C28: the events of the Subtitle elements of a file.                     *)
(***************************************************************************)
\* the Text elements of a Subtitle that have content
TextsWithContent(sub) ==
    SelectSeq(TextsUnder(sub) \o ChildrenNamed(sub, "Text"), HasContent)

\* the Subtitle elements of the file with text, in document order
SubtitlesWithText == SelectSeq(DiskSubtitles, HasText)

PreviousTargets ==
    { EmptyFile,
      SetScriptInfo([Events |-> <<AssDialogue(0, 1000, <<"O", "l", "d">>, "Mine", FALSE)>>,
                     Styles |-> <<AssStyle("Mine", Arial, 20, TRUE, FALSE, White, Black, 1)>>,
                     Info |-> NoInfo],
                    "Title", <<"o", "l", "d">>),
      SetScriptInfo([Events |-> <<AssDialogue(1000, 3000, <<"H", "i">>, "CineCanvas", FALSE),
                                  AssDialogue(4000, 5000, <<"L", "o">>, "CineCanvas", FALSE)>>,
                     Styles |-> <<StyleWithoutFont>>,
                     Info |-> NoInfo],
                    "Language", <<"d", "e">>) }

InitReadOver ==
    /\ src = EmptyFile
    /\ copy = EmptyFile
    /\ doc = NoDocument
    /\ disk \in DiskSamples
    /\ arg \in [filename : [stem : {<<"m">>}, ext : {"xml", "txt"}], fps : {Unloaded},
                 previous : PreviousTargets]
    /\ target = arg.previous
    /\ pc = "init"
    /\ ret = <<>>

SpecReadOver == InitReadOver /\ [][NextRead]_vars

(***************************************************************************)
(* C29: the target after ReadFile has raised.                              *)
(***************************************************************************)
\* C29: when ReadFile raises CineCanvasParseError the target holds the
\* default document, with the style Default, no style CineCanvas, no event
\* and no script info of before, whatever it held before the call
C29_NotAtomicOnFailure ==
    (pc = "read" /\ ret = "CineCanvasParseError") =>
        /\ target.Events = <<>>
        /\ Len(target.Styles) = 1
        /\ target.Styles[1].name = "Default"
        /\ \A i \in 1..Len(target.Styles) : target.Styles[i].name # "CineCanvas"
        /\ target.Info = NoInfo
        /\ arg.previous # EmptyFile => target # arg.previous

\* ReadFile raised on a missing file, and the two CineCanvas events, the style
\* and the language the target held are gone
C29_Witness ==
    /\ pc = "read" /\ ret = "CineCanvasParseError"
    /\ ~disk.exists
    /\ Len(arg.previous.Events) = 2
    /\ arg.previous.Styles[1].name = "CineCanvas"
    /\ target.Events = <<>>
    /\ target.Styles[1].name = "Default"

(***************************************************************************)
(* One event written under every frame rate the caller may hand over.      *)
(***************************************************************************)
\* starts and ends off and on the frame grid of the export rates
StartPool == {0, 1, 1042, 2999}

EndPool == {3000, 3001, 5555, 30001}

InitRate ==
    /\ arg \in [filename : {Filename}, fps : FpsPool, start : StartPool, end : EndPool]
    /\ src = [Events |-> <<AssDialogue(arg.start, arg.end, <<"H", "i">>, "Default", FALSE)>>,
              Styles |-> <<DefaultStyle>>, Info |-> NoInfo]
    /\ copy = EmptyFile /\ doc = NoDocument /\ disk = NoDocument /\ target = EmptyFile
    /\ pc = "init" /\ ret = <<>>

SpecRate == InitRate /\ [][Next]_vars

(***************************************************************************)
(* C30: the frame rate the times written are quantized at.                 *)
(***************************************************************************)
\* the rate of each frame-rate choice, as numerator and denominator
RateOfChoice ==
    [c \in {"FPS_23_976", "FPS_24", "FPS_25", "FPS_29_97", "FPS_30",
            "FPS_48", "FPS_50", "FPS_59_94", "FPS_60"} |->
        CASE c = "FPS_23_976" -> <<24000, 1001>>
          [] c = "FPS_24"     -> <<24, 1>>
          [] c = "FPS_25"     -> <<25, 1>>
          [] c = "FPS_29_97"  -> <<30000, 1001>>
          [] c = "FPS_30"     -> <<30, 1>>
          [] c = "FPS_48"     -> <<48, 1>>
          [] c = "FPS_50"     -> <<50, 1>>
          [] c = "FPS_59_94"  -> <<60000, 1001>>
          [] c = "FPS_60"     -> <<60, 1>>]

\* ms moved to the start of its frame at the rate r
OnFrameGrid(ms, r) == ((((ms * r[1]) \div (1000 * r[2])) * 1000 * r[2]) \div r[1])

\* the time ms as the writer shows it once quantized at the rate r
QuantizedAt(ms, r) == FormatTime(OnFrameGrid(ms, r))

\* C30: every TimeIn and TimeOut written by WriteFile is frame-quantized, at
\* 24 fps when the frame rate of the caller is not loaded and otherwise at
\* the rate of the choice the settings derive from it; the frame rate of the
\* caller itself never reaches the time conversion
C30_WriterAlwaysQuantizes ==
    (pc # "init" /\ doc.exists) =>
        /\ Len(WrittenSubtitles) = 1
        /\ GetAttribute(WrittenSubtitles[1], "TimeIn", <<>>)
               = QuantizedAt(arg.start,
                     IF arg.fps.loaded
                     THEN RateOfChoice[CineCanvasExportSettings(arg.filename, arg.fps).frame_rate]
                     ELSE <<24, 1>>)
        /\ GetAttribute(WrittenSubtitles[1], "TimeOut", <<>>)
               = QuantizedAt(arg.end,
                     IF arg.fps.loaded
                     THEN RateOfChoice[CineCanvasExportSettings(arg.filename, arg.fps).frame_rate]
                     ELSE <<24, 1>>)

\* without a frame rate of the caller, 1042 ms to 3001 ms was written as
\* 00:00:01:041 to 00:00:03:000, frames 25 and 72 at 24 fps
C30_Witness ==
    /\ pc = "written"
    /\ ~arg.fps.loaded
    /\ arg.start = 1042 /\ arg.end = 3001
    /\ GetAttribute(WrittenSubtitles[1], "TimeIn", <<>>)
           = <<"0", "0", ":", "0", "0", ":", "0", "1", ":", "0", "4", "1">>
    /\ GetAttribute(WrittenSubtitles[1], "TimeOut", <<>>)
           = <<"0", "0", ":", "0", "0", ":", "0", "3", ":", "0", "0", "0">>

====
